---- MODULE Spec2Model ----
(***************************************************************************)
(* A model of the BFFFS storage core.                                      *)
(*                                                                         *)
(*  - the IDML: the record indirection table (RIDT), the allocation table  *)
(*    (AllocT), the record cache, the RID counter and the IDML label       *)
(*    (src/src/common/idml.rs);                                            *)
(*  - the transaction group lock and the Database's fswrite and            *)
(*    sync_transaction (src/src/common/idml.rs, database.rs).              *)
(*                                                                         *)
(* Every asynchronous operation is split at the points where it touches    *)
(* shared state: one Tree operation, one Cache operation under its mutex,  *)
(* or one DDML operation is one step.  The members of a join() run in any  *)
(* order.                                                                  *)
(***************************************************************************)
EXTENDS Integers, FiniteSets, Sequences, TLC

\* ------------------------------------------------------------------ bounds
\* RIDs 0 .. MaxRid-1 can be allocated before the model stops allocating
MaxRid == 2
\* LBAs 0 .. NumPba-1 of the single cluster can be written
NumPba == 3
\* largest reference count of the record that exists when the pool is opened
MaxRefcount == 2
\* LBAs per zone
LbasPerZone == 2
\* the transaction group counter is stopped here
MaxTxg == 2
\* in-memory filesystem writes the model follows
MaxWrites == 2
\* blocks 0 .. MaxDrp-1 of the pool under the DDML can be written
MaxDrp == 2
\* the keys of the tree are 0 .. MaxKey-1, its values 1 .. MaxVal
MaxKey == 5
MaxVal == 2
\* Inner::min_fanout
min_fanout == 2
\* the children of the mirror
NumChildren == 3
\* width in bits of Mirror::next_read_idx
IdxBits == 4
\* the mirrors whose labels the children can carry
NumUuids == 3
\* width in bits of LbaT and of the byte offset of a VdevFile
LbaBits == 5
\* the longest buffer given to Compression::compress, in bytes
MaxLsize == 8
\* the largest n of a TreeID::Fs(n)
MaxFsId == 6
\* the devices that carry a label
NumDevs == 5
\* the uids of the peers and of the daemon
NumUids == 3
\* the longest vdev specification of pool create, in tokens
MaxTokens == 4
\* the children of the Int node whose locks are modelled
NumKids == 3

Tasks == {"t1", "t2"}

RIDs == 0 .. (MaxRid - 1)
PBAs == 0 .. (NumPba - 1)
Zones == 0 .. ((NumPba - 1) \div LbasPerZone)

\* ------------------------------------------------------------- data types
NoRid == -1
NoPba == -1
NoVal == 0

\* The payload that is put for a record: distinct records, distinct payloads
Payload(rid) == rid + 1

\* DRP: the checksum is a function of the bytes on disk, here the bytes
NoDrp == [pba |-> NoPba, checksum |-> NoVal]
MakeDrp(pba, val) == [pba |-> pba, checksum |-> val]

\* Option<RidtEntry>
None == [some |-> FALSE, drp |-> NoDrp, refcount |-> 0]
Some(drp, refcount) == [some |-> TRUE, drp |-> drp, refcount |-> refcount]
RidtEntryNew(drp) == Some(drp, 1)

VARIABLES
    ridt,        \* RID -> Option<RidtEntry>
    alloct,      \* PBA -> RID or NoRid
    cache,       \* RID -> cached payload or NoVal      (Key::Rid only)
    disk,        \* PBA -> bytes last written there, NoVal if never written
    allocated,   \* the PBAs that are allocated and not freed
    next_pba,    \* the write pointer of the pool
    next_rid,    \* IDML::next_rid
    task,        \* per task: the operation in flight and its locals
    label,       \* the IDML label last written to the pool
    assigned,    \* history: RIDs assigned by puts that the current state descends from
    everAssigned,\* history: RIDs assigned by any put, in any incarnation
    refs,        \* history: RID -> references handed out and not yet popped or deleted
    transaction, \* IDML::transaction: the current txg
    num_readers, \* RwLock: number of read guards (txg leases) alive
    exclusive,   \* RwLock: a write guard is alive
    fsw,         \* per task: the position of its Database::fswrite
    sync,        \* the position and locals of Database::sync_transaction
    fsdata,      \* in-memory contents of the filesystem trees: writes applied
    disklabel,   \* the label region of the vdev
    db,          \* history: what an import after a crash returned
    dcache,      \* DDML: PBA -> cached payload or NoVal      (Key::PBA only)
    dpend,       \* DDML: PBA -> a read for the cache is in flight
    ddisk,       \* DDML: PBA -> bytes written there, NoVal if never written
    dalloc,      \* DDML: the PBAs that are allocated and not freed
    dnext,       \* DDML: the write pointer of the pool
    dtask,       \* DDML: per task, the operation in flight and its locals
    fsr,         \* per task: the position of its Database::fsread
    troot,       \* Tree: Inner::root, the root IntElem and the nodes under it
    theight,     \* Tree: Inner::height
    tlast,       \* Tree: the last operation, its arguments and its result
    trd,         \* Tree: the position and locals of a Tree::get in flight
    tfanout,     \* Tree: Inner::max_fanout, given to Tree::new
    next_read_idx, \* Mirror::next_read_idx
    mreads,      \* Mirror, history: child -> reads sent to it
    mlastread,   \* Mirror, history: the last read and the child it went to
    mwrite,      \* Mirror: child -> the state of its write
    mres,        \* Mirror: the write in flight and its result
    mopen,       \* Mirror::open: what it was given and what it made
    vfile,       \* VdevFile: the last write, its arguments and what it touched
    cmp,         \* Compression: the last put, its arguments, its buffer, its DRP
    dbfs,        \* Database: Inner::filesystems, the Forest, the label, new_fs
    dm,          \* DevManager: Inner, the last call and how it ended
    rpc,         \* bfffsd: the last request, its peer, its response
    pcreate,     \* pool create: the vdev specification and the clusters made
    synclog,     \* history: the steps of the sync_transaction in flight
    tlk,         \* Tree: the node locks held, a range query and a remove
    erase        \* VdevFile::erase_method, the file, and the last erase_zone

tables == <<ridt, alloct>>
pool == <<disk, allocated, next_pba>>
hist == <<assigned, everAssigned, refs>>
idmlVars == <<tables, cache, pool, next_rid, task, label, hist>>
txgVars == <<transaction, num_readers, exclusive, fsw, sync, fsdata,
             disklabel, db>>
ddmlVars == <<dcache, dpend, ddisk, dalloc, dnext, dtask>>
treeVars == <<troot, theight, tlast, trd, tfanout>>
mirrorVars == <<next_read_idx, mreads, mlastread, mwrite, mres>>
miscVars == <<vfile, cmp, dbfs, dm, rpc, pcreate, synclog, tlk, erase>>
devVars == <<mirrorVars, mopen, miscVars>>
vars == <<idmlVars, txgVars, ddmlVars, fsr, treeVars, devVars>>

\* ------------------------------------------------------------ task locals
IdleTask == [pc |-> "idle", op |-> "none", rid |-> NoRid, entry |-> None,
             drp |-> NoDrp, pend |-> {}, val |-> NoVal, res |-> "none",
             lba |-> 0, end |-> 0, old |-> TRUE, live |-> TRUE,
             salloct |-> <<>>, sridt |-> <<>>]

AllIdle == \A t \in Tasks : task[t].pc = "idle"

\* A finished operation: its result stays readable until the task returns
Done(t, res, val) == [task[t] EXCEPT !.pc = "done", !.res = res, !.val = val,
                                     !.pend = {}]

\* ------------------------------------------------------------------- DDML
\* DDML::read: the bytes at the DRP's PBA, or EINTEGRITY (NoVal) if they do
\* not hash to the DRP's checksum
DdmlRead(drp) == IF disk[drp.pba] = drp.checksum THEN disk[drp.pba] ELSE NoVal

\* Pool::free as called by DDML::delete and DDML::pop_direct
PoolFree(pba) == allocated \ {pba}

\* ------------------------------------------------------------------- IDML
\* Atomic::fetch_add(1): the new value of next_rid
FetchAddStale(n) == n
FetchAdd(n) == n + 1

\* entry.refcount -= 1
DecRefcountTwice(entry) == [entry EXCEPT !.refcount = @ - 2]
DecRefcount(entry) == [entry EXCEPT !.refcount = @ - 1]

\* IDML::put, first step: rid = next_rid.fetch_add(1)
PutStart(t) ==
    /\ task[t].pc = "idle"
    /\ next_rid < MaxRid
    /\ task' = [task EXCEPT ![t] = [IdleTask EXCEPT !.pc = "put_direct",
                                       !.op = "put", !.rid = next_rid]]
    /\ next_rid' = FetchAdd(next_rid)
    /\ assigned' = assigned \cup {next_rid}
    /\ everAssigned' = everAssigned \cup {next_rid}
    /\ UNCHANGED <<tables, cache, pool, label, refs>>

\* IDML::put: ddml.put_direct writes the payload at the pool's write pointer,
\* or fails (the pool is full)
PutDirect(t) ==
    /\ task[t].pc = "put_direct"
    /\ IF next_pba < NumPba
       THEN /\ disk' = [disk EXCEPT ![next_pba] = Payload(task[t].rid)]
            /\ allocated' = allocated \cup {next_pba}
            /\ next_pba' = next_pba + 1
            /\ task' = [task EXCEPT ![t].pc = "put_join",
                          ![t].drp = MakeDrp(next_pba, Payload(task[t].rid)),
                          ![t].pend = {"ridt", "alloct"}]
       ELSE /\ task' = [task EXCEPT ![t] = Done(t, "ENOSPC", NoVal)]
            /\ UNCHANGED <<disk, allocated, next_pba>>
    /\ UNCHANGED <<tables, cache, next_rid, label, hist>>

\* IDML::put: ridt2.insert(rid, RidtEntry::new(drp), txg)
PutRidtInsert(t) ==
    /\ task[t].pc = "put_join"
    /\ "ridt" \in task[t].pend
    /\ ridt' = [ridt EXCEPT ![task[t].rid] = RidtEntryNew(task[t].drp)]
    /\ task' = [task EXCEPT ![t].pend = @ \ {"ridt"},
                  ![t].old = @ /\ ~ridt[task[t].rid].some]
    /\ refs' = [refs EXCEPT ![task[t].rid] = 1]
    /\ UNCHANGED <<alloct, cache, pool, next_rid, label, assigned, everAssigned>>

\* IDML::put: alloct2.insert(drp.pba(), rid, txg)
PutAlloctInsert(t) ==
    /\ task[t].pc = "put_join"
    /\ "alloct" \in task[t].pend
    /\ alloct' = [alloct EXCEPT ![task[t].drp.pba] = task[t].rid]
    /\ task' = [task EXCEPT ![t].pend = @ \ {"alloct"},
                  ![t].old = @ /\ alloct[task[t].drp.pba] = NoRid]
    /\ UNCHANGED <<ridt, cache, pool, next_rid, label, hist>>

\* IDML::put: the closure after the join: the two assertions, then the cache
\* insertion
PutFinish(t) ==
    /\ task[t].pc = "put_join"
    /\ task[t].pend = {}
    /\ IF task[t].old
       THEN /\ cache' = [cache EXCEPT ![task[t].rid] = Payload(task[t].rid)]
            /\ task' = [task EXCEPT ![t] = Done(t, "ok", NoVal)]
       ELSE /\ task' = [task EXCEPT ![t].pc = "panicked"]
            /\ UNCHANGED cache
    /\ UNCHANGED <<tables, pool, next_rid, label, hist>>

\* IDML::get, first step: the cache lookup
GetStart(t, rid) ==
    /\ task[t].pc = "idle"
    /\ IF cache[rid] # NoVal
       THEN task' = [task EXCEPT ![t] = [IdleTask EXCEPT !.pc = "done",
                        !.op = "get", !.rid = rid, !.res = "ok",
                        !.val = cache[rid]]]
       ELSE task' = [task EXCEPT ![t] = [IdleTask EXCEPT !.pc = "get_ridt",
                        !.op = "get", !.rid = rid]]
    /\ UNCHANGED <<tables, cache, pool, next_rid, label, hist>>

\* IDML::get: self.ridt.get(rid), None is ENOENT
GetRidt(t) ==
    /\ task[t].pc = "get_ridt"
    /\ IF ridt[task[t].rid].some
       THEN task' = [task EXCEPT ![t].pc = "get_direct",
                       ![t].entry = ridt[task[t].rid]]
       ELSE task' = [task EXCEPT ![t] = Done(t, "ENOENT", NoVal)]
    /\ UNCHANGED <<tables, cache, pool, next_rid, label, hist>>

\* IDML::get: ddml2.get_direct(&entry.drp), then the cache insertion.
\* live records whether the PBA that was read was still allocated.
GetDirect(t) ==
    /\ task[t].pc = "get_direct"
    /\ LET v == DdmlRead(task[t].entry.drp) IN
       IF v # NoVal
       THEN /\ cache' = [cache EXCEPT ![task[t].rid] = v]
            /\ task' = [task EXCEPT ![t] =
                  [Done(t, "ok", v) EXCEPT !.live =
                      task[t].entry.drp.pba \in allocated]]
       ELSE /\ task' = [task EXCEPT ![t] = Done(t, "EINTEGRITY", NoVal)]
            /\ UNCHANGED cache
    /\ UNCHANGED <<tables, pool, next_rid, label, hist>>

\* IDML::evict: cache eviction only
Evict(t, rid) ==
    /\ task[t].pc = "idle"
    /\ cache[rid] # NoVal
    /\ cache' = [cache EXCEPT ![rid] = NoVal]
    /\ UNCHANGED <<tables, pool, next_rid, task, label, hist>>

\* The future's result is taken and the task is free again
Return(t) ==
    /\ task[t].pc = "done"
    /\ task' = [task EXCEPT ![t] = IdleTask]
    /\ UNCHANGED <<tables, cache, pool, next_rid, label, hist>>

\* IDML::pop, first step: self.ridt.get(rid), None is ENOENT
PopStartUnchecked(t, rid) ==
    /\ task[t].pc = "idle"
    /\ IF ridt[rid].some
       THEN task' = [task EXCEPT ![t] = [IdleTask EXCEPT !.pc = "pop_closure",
                       !.op = "pop", !.rid = rid, !.entry = ridt[rid]]]
       ELSE task' = [task EXCEPT ![t] = [IdleTask EXCEPT !.pc = "done",
                       !.op = "pop", !.rid = rid, !.res = "ok"]]
    /\ UNCHANGED <<tables, cache, pool, next_rid, label, hist>>
PopStart(t, rid) ==
    /\ task[t].pc = "idle"
    /\ IF ridt[rid].some
       THEN task' = [task EXCEPT ![t] = [IdleTask EXCEPT !.pc = "pop_closure",
                       !.op = "pop", !.rid = rid, !.entry = ridt[rid]]]
       ELSE task' = [task EXCEPT ![t] = [IdleTask EXCEPT !.pc = "done",
                       !.op = "pop", !.rid = rid, !.res = "ENOENT"]]
    /\ UNCHANGED <<tables, cache, pool, next_rid, label, hist>>

\* IDML::pop: the closure run on the entry: the decrement, the cache removal
\* (last reference) or cache lookup (other references), and the futures that
\* are then joined
PopClosure(t) ==
    /\ task[t].pc = "pop_closure"
    /\ LET entry == DecRefcount(task[t].entry) IN
       IF entry.refcount = 0
       THEN /\ cache' = [cache EXCEPT ![task[t].rid] = NoVal]
            /\ task' = [task EXCEPT ![t].pc = "pop_last", ![t].entry = entry,
                          ![t].val = cache[task[t].rid],
                          ![t].pend = {"data", "alloct", "ridt"}]
       ELSE /\ task' = [task EXCEPT ![t].pc = "pop_notlast",
                          ![t].entry = entry,
                          ![t].val = cache[task[t].rid],
                          ![t].pend = IF cache[task[t].rid] = NoVal
                                      THEN {"data", "ridt"} ELSE {"ridt"}]
            /\ UNCHANGED cache
    /\ UNCHANGED <<tables, pool, next_rid, label, hist>>

\* IDML::pop: bfut.  Last reference: ddml.delete if the record was cached,
\* else ddml.pop_direct (read, verify, free).  Other references, not cached:
\* ddml.get_direct.
PopData(t) ==
    /\ task[t].pc \in {"pop_last", "pop_notlast"}
    /\ "data" \in task[t].pend
    /\ LET drp == task[t].entry.drp
           v == IF task[t].val # NoVal THEN task[t].val ELSE DdmlRead(drp)
       IN IF v = NoVal
          THEN /\ task' = [task EXCEPT ![t] = Done(t, "EINTEGRITY", NoVal)]
               /\ UNCHANGED allocated
          ELSE /\ task' = [task EXCEPT ![t].pend = @ \ {"data"}, ![t].val = v,
                             ![t].live = (task[t].val # NoVal
                                           \/ drp.pba \in allocated)]
               /\ allocated' = IF task[t].pc = "pop_last"
                               THEN PoolFree(drp.pba) ELSE allocated
    /\ UNCHANGED <<tables, cache, disk, next_pba, next_rid, label, hist>>

\* IDML::pop: alloct2.remove(entry.drp.pba(), txg)
PopAlloctRemove(t) ==
    /\ task[t].pc = "pop_last"
    /\ "alloct" \in task[t].pend
    /\ alloct' = [alloct EXCEPT ![task[t].entry.drp.pba] = NoRid]
    /\ task' = [task EXCEPT ![t].pend = @ \ {"alloct"},
                  ![t].old = alloct[task[t].entry.drp.pba] # NoRid]
    /\ UNCHANGED <<ridt, cache, pool, next_rid, label, hist>>

\* IDML::pop: ridt2.remove(rid, txg)
PopRidtRemove(t) ==
    /\ task[t].pc = "pop_last"
    /\ "ridt" \in task[t].pend
    /\ ridt' = [ridt EXCEPT ![task[t].rid] = None]
    /\ task' = [task EXCEPT ![t].pend = @ \ {"ridt"}]
    /\ UNCHANGED <<alloct, cache, pool, next_rid, label, hist>>

\* IDML::pop: ridt2.insert(rid, entry, txg) of the decremented entry
PopRidtInsert(t) ==
    /\ task[t].pc = "pop_notlast"
    /\ "ridt" \in task[t].pend
    /\ ridt' = [ridt EXCEPT ![task[t].rid] = task[t].entry]
    /\ task' = [task EXCEPT ![t].pend = @ \ {"ridt"}]
    /\ UNCHANGED <<alloct, cache, pool, next_rid, label, hist>>

\* IDML::pop: the closure after the join: assert!(old_rid.is_some()), and the
\* value is returned
PopFinish(t) ==
    /\ task[t].pc \in {"pop_last", "pop_notlast"}
    /\ task[t].pend = {}
    /\ IF task[t].old
       THEN /\ task' = [task EXCEPT ![t] = Done(t, "ok", task[t].val)]
            /\ refs' = [refs EXCEPT ![task[t].rid] = @ - 1]
       ELSE /\ task' = [task EXCEPT ![t].pc = "panicked"]
            /\ UNCHANGED refs
    /\ UNCHANGED <<tables, cache, pool, next_rid, label, assigned,
                   everAssigned>>

\* IDML::delete, first step: self.ridt.get(rid), None is ENOENT
DeleteStart(t, rid) ==
    /\ task[t].pc = "idle"
    /\ IF ridt[rid].some
       THEN task' = [task EXCEPT ![t] = [IdleTask EXCEPT
                       !.pc = "delete_closure",
                       !.op = "delete", !.rid = rid, !.entry = ridt[rid]]]
       ELSE task' = [task EXCEPT ![t] = [IdleTask EXCEPT !.pc = "done",
                       !.op = "delete", !.rid = rid, !.res = "ENOENT"]]
    /\ UNCHANGED <<tables, cache, pool, next_rid, label, hist>>

\* IDML::delete: the closure run on the entry: the decrement, and for the
\* last reference the cache removal
DeleteClosure(t) ==
    /\ task[t].pc = "delete_closure"
    /\ LET entry == DecRefcount(task[t].entry) IN
       IF entry.refcount = 0
       THEN /\ cache' = [cache EXCEPT ![task[t].rid] = NoVal]
            /\ task' = [task EXCEPT ![t].pc = "delete_last",
                          ![t].entry = entry,
                          ![t].pend = {"data", "alloct", "ridt"}]
       ELSE /\ task' = [task EXCEPT ![t].pc = "delete_notlast",
                          ![t].entry = entry, ![t].pend = {"ridt"}]
            /\ UNCHANGED cache
    /\ UNCHANGED <<tables, pool, next_rid, label, hist>>

\* IDML::delete: ddml2.delete(&entry.drp, txg) frees the record's blocks
DeleteData(t) ==
    /\ task[t].pc = "delete_last"
    /\ "data" \in task[t].pend
    /\ allocated' = PoolFree(task[t].entry.drp.pba)
    /\ task' = [task EXCEPT ![t].pend = @ \ {"data"}]
    /\ UNCHANGED <<tables, cache, disk, next_pba, next_rid, label, hist>>

\* IDML::delete: alloct2.remove(entry.drp.pba(), txg)
DeleteAlloctRemove(t) ==
    /\ task[t].pc = "delete_last"
    /\ "alloct" \in task[t].pend
    /\ alloct' = [alloct EXCEPT ![task[t].entry.drp.pba] = NoRid]
    /\ task' = [task EXCEPT ![t].pend = @ \ {"alloct"},
                  ![t].old = alloct[task[t].entry.drp.pba] # NoRid]
    /\ UNCHANGED <<ridt, cache, pool, next_rid, label, hist>>

\* IDML::delete: ridt2.remove(rid, txg)
DeleteRidtRemove(t) ==
    /\ task[t].pc = "delete_last"
    /\ "ridt" \in task[t].pend
    /\ ridt' = [ridt EXCEPT ![task[t].rid] = None]
    /\ task' = [task EXCEPT ![t].pend = @ \ {"ridt"}]
    /\ UNCHANGED <<alloct, cache, pool, next_rid, label, hist>>

\* IDML::delete: ridt2.insert(rid, entry, txg) of the decremented entry
DeleteRidtInsert(t) ==
    /\ task[t].pc = "delete_notlast"
    /\ "ridt" \in task[t].pend
    /\ ridt' = [ridt EXCEPT ![task[t].rid] = task[t].entry]
    /\ task' = [task EXCEPT ![t].pend = @ \ {"ridt"}]
    /\ UNCHANGED <<alloct, cache, pool, next_rid, label, hist>>

\* IDML::delete: the closure after the join: assert!(old_rid.is_some())
DeleteFinish(t) ==
    /\ task[t].pc \in {"delete_last", "delete_notlast"}
    /\ task[t].pend = {}
    /\ IF task[t].old
       THEN /\ task' = [task EXCEPT ![t] = Done(t, "ok", NoVal)]
            /\ refs' = [refs EXCEPT ![task[t].rid] = @ - 1]
       ELSE /\ task' = [task EXCEPT ![t].pc = "panicked"]
            /\ UNCHANGED refs
    /\ UNCHANGED <<tables, cache, pool, next_rid, label, assigned,
                   everAssigned>>

\* The PBAs of a zone, and the first PBA at or after lba in the zone that the
\* AllocT has an entry for (Tree::range over zone.pba..end)
ZoneStart(zone) == zone * LbasPerZone
ZoneEnd(zone) == IF (zone + 1) * LbasPerZone < NumPba
                 THEN (zone + 1) * LbasPerZone ELSE NumPba
RangeFrom(lba, end) == {p \in PBAs : p >= lba /\ p < end /\ alloct[p] # NoRid}
Min(S) == CHOOSE x \in S : \A y \in S : x <= y

\* IDML::clean_zone of a closed zone: every block of the zone has been
\* written, so the pool allocates elsewhere
CleanZoneStart(t, zone) ==
    /\ task[t].pc = "idle"
    /\ ZoneEnd(zone) <= next_pba
    /\ task' = [task EXCEPT ![t] = [IdleTask EXCEPT !.pc = "clean_next",
                  !.op = "clean_zone", !.lba = ZoneStart(zone),
                  !.end = ZoneEnd(zone)]]
    /\ UNCHANGED <<tables, cache, pool, next_rid, label, hist>>

\* IDML::clean_zone: the next item of list_indirect_records; at the end of
\* the stream the two tables' own nodes are cleaned, which moves tree nodes
\* and changes no entry
CleanNext(t) ==
    /\ task[t].pc = "clean_next"
    /\ LET S == RangeFrom(task[t].lba, task[t].end) IN
       IF S = {}
       THEN task' = [task EXCEPT ![t] = Done(t, "ok", NoVal)]
       ELSE task' = [task EXCEPT ![t].pc = "move_ridt",
                       ![t].rid = alloct[Min(S)], ![t].lba = Min(S) + 1]
    /\ UNCHANGED <<tables, cache, pool, next_rid, label, hist>>

\* IDML::move_record: self.ridt.get(rid) with its expect(), then the cache
\* lookup
MoveRidtGet(t) ==
    /\ task[t].pc = "move_ridt"
    /\ IF ridt[task[t].rid].some
       THEN task' = [task EXCEPT ![t].entry = ridt[task[t].rid],
                       ![t].val = cache[task[t].rid],
                       ![t].pc = IF cache[task[t].rid] # NoVal
                                 THEN "move_put" ELSE "move_read"]
       ELSE task' = [task EXCEPT ![t].pc = "panicked"]
    /\ UNCHANGED <<tables, cache, pool, next_rid, label, hist>>

\* IDML::move_record: self.ddml.get_direct(&entry.drp) on a cache miss
MoveRead(t) ==
    /\ task[t].pc = "move_read"
    /\ LET v == DdmlRead(task[t].entry.drp) IN
       IF v # NoVal
       THEN task' = [task EXCEPT ![t].pc = "move_put", ![t].val = v]
       ELSE task' = [task EXCEPT ![t] = Done(t, "EINTEGRITY", NoVal)]
    /\ UNCHANGED <<tables, cache, pool, next_rid, label, hist>>

\* IDML::move_record: self.ddml.put_direct(*buf, compression, txg)
MovePutDirect(t) ==
    /\ task[t].pc = "move_put"
    /\ IF next_pba < NumPba
       THEN /\ disk' = [disk EXCEPT ![next_pba] = task[t].val]
            /\ allocated' = allocated \cup {next_pba}
            /\ next_pba' = next_pba + 1
            /\ task' = [task EXCEPT ![t].pc = "move_join",
                          ![t].drp = MakeDrp(next_pba, task[t].val),
                          ![t].pend = {"ridt", "alloct"}]
       ELSE /\ task' = [task EXCEPT ![t] = Done(t, "ENOSPC", NoVal)]
            /\ UNCHANGED <<disk, allocated, next_pba>>
    /\ UNCHANGED <<tables, cache, next_rid, label, hist>>

\* IDML::move_record: entry.drp = drp; self.ridt.insert(rid, entry, txg)
MoveRidtInsert(t) ==
    /\ task[t].pc = "move_join"
    /\ "ridt" \in task[t].pend
    /\ ridt' = [ridt EXCEPT ![task[t].rid] =
                    [task[t].entry EXCEPT !.drp = task[t].drp]]
    /\ task' = [task EXCEPT ![t].pend = @ \ {"ridt"}]
    /\ UNCHANGED <<alloct, cache, pool, next_rid, label, hist>>

\* IDML::move_record: self.alloct.insert(drp.pba(), rid, txg)
MoveAlloctInsertSkipped(t) ==
    /\ task[t].pc = "move_join"
    /\ "alloct" \in task[t].pend
    /\ task' = [task EXCEPT ![t].pend = @ \ {"alloct"}]
    /\ UNCHANGED <<tables, cache, pool, next_rid, label, hist>>
MoveAlloctInsert(t) ==
    /\ task[t].pc = "move_join"
    /\ "alloct" \in task[t].pend
    /\ alloct' = [alloct EXCEPT ![task[t].drp.pba] = task[t].rid]
    /\ task' = [task EXCEPT ![t].pend = @ \ {"alloct"}]
    /\ UNCHANGED <<ridt, cache, pool, next_rid, label, hist>>

\* IDML::clean_zone: the record is moved, for_each goes on
MoveFinish(t) ==
    /\ task[t].pc = "move_join"
    /\ task[t].pend = {}
    /\ task' = [task EXCEPT ![t].pc = "clean_next", ![t].entry = None,
                  ![t].drp = NoDrp, ![t].val = NoVal, ![t].rid = NoRid]
    /\ UNCHANGED <<tables, cache, pool, next_rid, label, hist>>

\* ------------------------------------------------------------- IDML label
NoLabel == [valid |-> FALSE, alloct |-> <<>>, next_rid |-> 0, ridt |-> <<>>,
            next_pba |-> 0, assigned |-> {}]

\* IDML::write_label, first step: the two flushes are started
WriteLabelStart(t) ==
    /\ task[t].pc = "idle"
    /\ task' = [task EXCEPT ![t] = [IdleTask EXCEPT !.pc = "wl_flush",
                  !.op = "write_label", !.pend = {"alloct", "ridt"}]]
    /\ UNCHANGED <<tables, cache, pool, next_rid, label, hist>>

\* IDML::write_label: self.alloct.flush(txg)
WriteLabelFlushAlloct(t) ==
    /\ task[t].pc = "wl_flush"
    /\ "alloct" \in task[t].pend
    /\ task' = [task EXCEPT ![t].pend = @ \ {"alloct"},
                  ![t].salloct = alloct]
    /\ UNCHANGED <<tables, cache, pool, next_rid, label, hist>>

\* IDML::write_label: self.ridt.flush(txg)
WriteLabelFlushRidt(t) ==
    /\ task[t].pc = "wl_flush"
    /\ "ridt" \in task[t].pend
    /\ task' = [task EXCEPT ![t].pend = @ \ {"ridt"}, ![t].sridt = ridt]
    /\ UNCHANGED <<tables, cache, pool, next_rid, label, hist>>

\* IDML::write_label: the Label is built from the flushed trees and
\* next_rid.load(), and written through the DDML with the pool's state
WriteLabelWrite(t) ==
    /\ task[t].pc = "wl_flush"
    /\ task[t].pend = {}
    /\ label' = [valid |-> TRUE, alloct |-> task[t].salloct,
                 next_rid |-> next_rid, ridt |-> task[t].sridt,
                 next_pba |-> next_pba, assigned |-> assigned]
    /\ task' = [task EXCEPT ![t] = [Done(t, "ok", NoVal) EXCEPT
                  !.salloct = <<>>, !.sridt = <<>>]]
    /\ UNCHANGED <<tables, cache, pool, next_rid, hist>>

\* The process stops at any point; IDML::open builds the IDML from the label
\* last written, with an empty cache.  The pool comes back with the blocks
\* allocated that the label's AllocT accounts for.
Open ==
    /\ label.valid
    /\ ridt' = label.ridt
    /\ alloct' = label.alloct
    /\ next_rid' = label.next_rid
    /\ allocated' = {p \in PBAs : label.alloct[p] # NoRid}
    /\ next_pba' = label.next_pba
    /\ cache' = [r \in RIDs |-> NoVal]
    /\ task' = [t \in Tasks |-> IdleTask]
    /\ assigned' = label.assigned
    /\ refs' = [r \in RIDs |-> label.ridt[r].refcount]
    /\ UNCHANGED <<disk, label, everAssigned>>

\* ------------------------------------------------------------------- DDML
\* The payload written at a PBA, and a checksum that no payload has
DPayload(pba) == pba + 1
DPBAs == 0 .. (MaxDrp - 1)
BadSum == MaxDrp + 1

\* The DRPs a caller can pass: the DRP that put returned for a PBA, or, as
\* in the tests, a DRP whose checksum is not that of the bytes on disk
Drps == UNION {{MakeDrp(p, DPayload(p)), MakeDrp(p, BadSum)} : p \in DPBAs}

IdleDTask == [pc |-> "idle", op |-> "none", drp |-> NoDrp, val |-> NoVal,
              res |-> "none"]
DAllIdle == \A t \in Tasks : dtask[t].pc = "idle"
DDone(t, res, val) == [dtask[t] EXCEPT !.pc = "done", !.res = res,
                                       !.val = val]

\* Pool::read: the bytes of the block; the bytes of a freed block are what
\* was written or, if the zone has been erased since, nothing
PoolRead(pba) == IF pba \in dalloc THEN {ddisk[pba]}
                 ELSE {ddisk[pba], NoVal}

\* DDML::read: checksum == drp.checksum
VerifyNothing(drp, bytes) == bytes # NoVal
Verify(drp, bytes) == bytes = drp.checksum

\* DDML::put: put_common: serialize, checksum, pool.write
DPutWrite(t) ==
    /\ dtask[t].pc = "idle"
    /\ dnext < MaxDrp
    /\ ddisk' = [ddisk EXCEPT ![dnext] = DPayload(dnext)]
    /\ dalloc' = dalloc \cup {dnext}
    /\ dnext' = dnext + 1
    /\ dtask' = [dtask EXCEPT ![t] = [IdleDTask EXCEPT !.pc = "put_cache",
                    !.op = "put", !.drp = MakeDrp(dnext, DPayload(dnext)),
                    !.val = DPayload(dnext)]]
    /\ UNCHANGED <<dcache, dpend>>

\* DDML::put: the map_ok closure: cache insert, the DRP is returned
DPutCache(t) ==
    /\ dtask[t].pc = "put_cache"
    /\ dcache' = [dcache EXCEPT ![dtask[t].drp.pba] = dtask[t].val]
    /\ dtask' = [dtask EXCEPT ![t] = DDone(t, "ok", dtask[t].val)]
    /\ UNCHANGED <<dpend, ddisk, dalloc, dnext>>

\* DDML::get, cache::get_or_insert!: 1) fetch from cache, or 2) wait on a
\* pending cache insertion, or 3) read from disk
DGetStart(t, drp) ==
    /\ dtask[t].pc \in {"idle", "get_retry"}
    /\ dtask[t].pc = "get_retry" => drp = dtask[t].drp
    /\ IF dcache[drp.pba] # NoVal
       THEN /\ dtask' = [dtask EXCEPT ![t] = [IdleDTask EXCEPT !.pc = "done",
                           !.op = "get", !.drp = drp, !.res = "ok",
                           !.val = dcache[drp.pba]]]
            /\ UNCHANGED dpend
       ELSE IF dpend[drp.pba]
       THEN /\ dtask' = [dtask EXCEPT ![t] = [IdleDTask EXCEPT
                           !.pc = "get_wait", !.op = "get", !.drp = drp]]
            /\ UNCHANGED dpend
       ELSE /\ dtask' = [dtask EXCEPT ![t] = [IdleDTask EXCEPT
                           !.pc = "get_read", !.op = "get", !.drp = drp]]
            /\ dpend' = [dpend EXCEPT ![drp.pba] = TRUE]
    /\ UNCHANGED <<dcache, ddisk, dalloc, dnext>>

\* DDML::get: the read finishes: the value is inserted into the cache and the
\* waiters are notified; a failed read inserts nothing
DGetRead(t) ==
    /\ dtask[t].pc = "get_read"
    /\ \E bytes \in PoolRead(dtask[t].drp.pba) :
          IF Verify(dtask[t].drp, bytes)
          THEN /\ dcache' = [dcache EXCEPT ![dtask[t].drp.pba] = bytes]
               /\ dtask' = [dtask EXCEPT ![t] = DDone(t, "ok", bytes)]
          ELSE /\ dtask' = [dtask EXCEPT ![t] =
                              DDone(t, "EINTEGRITY", NoVal)]
               /\ UNCHANGED dcache
    /\ dpend' = [dpend EXCEPT ![dtask[t].drp.pba] = FALSE]
    /\ UNCHANGED <<ddisk, dalloc, dnext>>

\* DDML::get: a waiter is notified and looks again
DGetWake(t) ==
    /\ dtask[t].pc = "get_wait"
    /\ ~dpend[dtask[t].drp.pba]
    /\ dtask' = [dtask EXCEPT ![t].pc = "get_retry"]
    /\ UNCHANGED <<dcache, dpend, ddisk, dalloc, dnext>>

\* DDML::get_direct: self.read(*drp), bypassing the cache
DGetDirectStart(t, drp) ==
    /\ dtask[t].pc = "idle"
    /\ dtask' = [dtask EXCEPT ![t] = [IdleDTask EXCEPT !.pc = "direct_read",
                    !.op = "get_direct", !.drp = drp]]
    /\ UNCHANGED <<dcache, dpend, ddisk, dalloc, dnext>>

\* DDML::get_direct: the read finishes
DGetDirectRead(t) ==
    /\ dtask[t].pc = "direct_read"
    /\ \E bytes \in PoolRead(dtask[t].drp.pba) :
          dtask' = [dtask EXCEPT ![t] =
             IF Verify(dtask[t].drp, bytes) THEN DDone(t, "ok", bytes)
             ELSE DDone(t, "EINTEGRITY", NoVal)]
    /\ UNCHANGED <<dcache, dpend, ddisk, dalloc, dnext>>

\* DDML::pop: the cache entry is removed; cached: pool.free follows, else
\* pop_direct
DPopStart(t, drp) ==
    /\ dtask[t].pc = "idle"
    /\ dcache' = [dcache EXCEPT ![drp.pba] = NoVal]
    /\ IF dcache[drp.pba] # NoVal
       THEN /\ dtask' = [dtask EXCEPT ![t] = [IdleDTask EXCEPT
                           !.pc = "pop_free", !.op = "pop", !.drp = drp,
                           !.val = dcache[drp.pba]]]
       ELSE /\ dtask' = [dtask EXCEPT ![t] = [IdleDTask EXCEPT
                           !.pc = "pop_read", !.op = "pop", !.drp = drp]]
    /\ UNCHANGED <<dpend, ddisk, dalloc, dnext>>

\* DDML::pop_direct: self.read(*drp)
DPopDirectStart(t, drp) ==
    /\ dtask[t].pc = "idle"
    /\ dtask' = [dtask EXCEPT ![t] = [IdleDTask EXCEPT !.pc = "pop_read",
                    !.op = "pop_direct", !.drp = drp]]
    /\ UNCHANGED <<dcache, dpend, ddisk, dalloc, dnext>>

\* DDML::pop_direct: the read finishes; and_then pool2.free only when it
\* succeeded
DPopRead(t) ==
    /\ dtask[t].pc = "pop_read"
    /\ \E bytes \in PoolRead(dtask[t].drp.pba) :
          dtask' = [dtask EXCEPT ![t] =
             IF Verify(dtask[t].drp, bytes)
             THEN [dtask[t] EXCEPT !.pc = "pop_free", !.val = bytes]
             ELSE DDone(t, "EINTEGRITY", NoVal)]
    /\ UNCHANGED <<dcache, dpend, ddisk, dalloc, dnext>>

\* DDML::pop, DDML::pop_direct, DDML::delete: pool.free(pba, lbas)
DFree(t) ==
    /\ dtask[t].pc = "pop_free"
    /\ dalloc' = dalloc \ {dtask[t].drp.pba}
    /\ dtask' = [dtask EXCEPT ![t] = DDone(t, "ok", dtask[t].val)]
    /\ UNCHANGED <<dcache, dpend, ddisk, dnext>>

\* DDML::delete: the cache entry is removed, pool.free follows
DDeleteStart(t, drp) ==
    /\ dtask[t].pc = "idle"
    /\ dcache' = [dcache EXCEPT ![drp.pba] = NoVal]
    /\ dtask' = [dtask EXCEPT ![t] = [IdleDTask EXCEPT !.pc = "pop_free",
                    !.op = "delete", !.drp = drp]]
    /\ UNCHANGED <<dpend, ddisk, dalloc, dnext>>

\* DDML::evict
DEvict(t, drp) ==
    /\ dtask[t].pc = "idle"
    /\ dcache[drp.pba] # NoVal
    /\ dcache' = [dcache EXCEPT ![drp.pba] = NoVal]
    /\ UNCHANGED <<dpend, ddisk, dalloc, dnext, dtask>>

\* The future's result is taken and the task is free again
DReturn(t) ==
    /\ dtask[t].pc = "done"
    /\ dtask' = [dtask EXCEPT ![t] = IdleDTask]
    /\ UNCHANGED <<dcache, dpend, ddisk, dalloc, dnext>>

\* ------------------------------------------- transaction groups, Database
IdleFsw == [pc |-> "idle", txg |-> 0, n |-> 0]
IdleSync == [pc |-> "idle", txg |-> 0, flushed |-> 0, res |-> "none",
             calls |-> 0]
NoDiskLabel == [state |-> "none", txg |-> 0, data |-> 0, prev |-> FALSE]
NoDb == [state |-> "none", data |-> 0, synced |-> 0, written |-> 0,
         isynced |-> 0, iwritten |-> 0]

\* sync_transaction is inside the closure given to advance_transaction
InClosure == {"flush", "sync1", "label", "labelling", "sync2", "advance"}

\* Database::fswrite, first step: self.inner.idml.txg(), the read lock on the
\* transaction group is granted when no write guard is alive
FsWriteTxg(t) ==
    /\ fsw[t].pc = "idle"
    /\ db.state # "unreadable"
    /\ ~exclusive
    /\ num_readers' = num_readers + 1
    /\ fsw' = [fsw EXCEPT ![t] = [IdleFsw EXCEPT !.pc = "leased"]]
    /\ UNCHANGED <<transaction, exclusive, sync, fsdata, disklabel, db>>

\* Database::fswrite: the and_then closure: the dataset is built with *txg,
\* f(ds) makes the future, and the guard, a parameter of the closure, is
\* dropped when the closure returns
FsWriteCall(t) ==
    /\ fsw[t].pc = "leased"
    /\ fsw' = [fsw EXCEPT ![t].pc = "running", ![t].txg = transaction]
    /\ num_readers' = num_readers - 1
    /\ UNCHANGED <<transaction, exclusive, sync, fsdata, disklabel, db>>

\* The future made by f: one operation on the dataset, in transaction group
\* ds.txg
FsWriteStep(t) ==
    /\ fsw[t].pc = "running"
    /\ fsdata < MaxWrites
    /\ fsdata' = fsdata + 1
    /\ fsw' = [fsw EXCEPT ![t].n = @ + 1]
    /\ UNCHANGED <<transaction, num_readers, exclusive, sync, disklabel, db>>

\* The future made by f finishes
FsWriteDone(t) ==
    /\ fsw[t].pc = "running"
    /\ fsw[t].n > 0
    /\ fsw' = [fsw EXCEPT ![t] = IdleFsw]
    /\ UNCHANGED <<transaction, num_readers, exclusive, sync, fsdata,
                   disklabel, db>>

\* Database::sync_transaction, IDML::advance_transaction: the write lock is
\* granted when no guard is alive; the closure reads txg and calls f(txg)
SyncStartIgnoringReaders ==
    /\ sync.pc = "idle"
    /\ db.state # "unreadable"
    /\ transaction < MaxTxg
    /\ ~exclusive
    /\ exclusive' = TRUE
    /\ sync' = [IdleSync EXCEPT !.pc = "flush", !.txg = transaction,
                                !.calls = 1]
    /\ UNCHANGED <<transaction, num_readers, fsw, fsdata, disklabel, db>>
SyncStart ==
    /\ sync.pc = "idle"
    /\ db.state # "unreadable"
    /\ transaction < MaxTxg
    /\ ~exclusive
    /\ num_readers = 0
    /\ exclusive' = TRUE
    /\ sync' = [IdleSync EXCEPT !.pc = "flush", !.txg = transaction,
                                !.calls = 1]
    /\ UNCHANGED <<transaction, num_readers, fsw, fsdata, disklabel, db>>

\* sync_transaction: every filesystem tree is flushed and its TreeOnDisk is
\* inserted into the forest
SyncFlush ==
    /\ sync.pc = "flush"
    /\ sync' = [sync EXCEPT !.pc = "sync1", !.flushed = fsdata]
    /\ UNCHANGED <<transaction, num_readers, exclusive, fsw, fsdata,
                   disklabel, db>>

\* sync_transaction: idml2.sync_all(txg)
SyncAll1 ==
    /\ sync.pc = "sync1"
    /\ sync' = [sync EXCEPT !.pc = "label"]
    /\ UNCHANGED <<transaction, num_readers, exclusive, fsw, fsdata,
                   disklabel, db>>

\* sync_transaction: inner2.write_label(txg): the write of the label begins.
\* There is one label, and it is overwritten in place; prev tells whether a
\* complete label was there when the write began.
SyncLabelBegin ==
    /\ sync.pc = "label"
    /\ sync' = [sync EXCEPT !.pc = "labelling"]
    /\ disklabel' = [disklabel EXCEPT !.state = "torn",
                                      !.prev = (disklabel.state = "ok")]
    /\ UNCHANGED <<transaction, num_readers, exclusive, fsw, fsdata, db>>

\* sync_transaction: the write of the label is complete
SyncLabelEnd ==
    /\ sync.pc = "labelling"
    /\ sync' = [sync EXCEPT !.pc = "sync2"]
    /\ disklabel' = [state |-> "ok", txg |-> sync.txg, data |-> sync.flushed,
                     prev |-> disklabel.prev]
    /\ db' = [db EXCEPT !.written = sync.flushed]
    /\ UNCHANGED <<transaction, num_readers, exclusive, fsw, fsdata>>

\* sync_transaction: idml3.sync_all(txg)
SyncAll2 ==
    /\ sync.pc = "sync2"
    /\ sync' = [sync EXCEPT !.pc = "advance"]
    /\ UNCHANGED <<transaction, num_readers, exclusive, fsw, fsdata,
                   disklabel, db>>

\* advance_transaction: f(txg) succeeded: *txg_guard += 1, and the guard is
\* dropped
SyncAdvance ==
    /\ sync.pc = "advance"
    /\ transaction' = transaction + 1
    /\ exclusive' = FALSE
    /\ sync' = [sync EXCEPT !.pc = "done", !.res = "ok"]
    /\ db' = [db EXCEPT !.synced = sync.flushed]
    /\ UNCHANGED <<num_readers, fsw, fsdata, disklabel>>

\* advance_transaction: f(txg) failed (one of the flushes, syncs or writes
\* returned an error): the error is returned and the guard is dropped
SyncFailAdvancing ==
    /\ sync.pc \in {"flush", "sync1", "labelling", "sync2"}
    /\ transaction' = transaction + 1
    /\ exclusive' = FALSE
    /\ sync' = [sync EXCEPT !.pc = "done", !.res = "err"]
    /\ UNCHANGED <<num_readers, fsw, fsdata, disklabel, db>>
SyncFail ==
    /\ sync.pc \in {"flush", "sync1", "labelling", "sync2"}
    /\ exclusive' = FALSE
    /\ sync' = [sync EXCEPT !.pc = "done", !.res = "err"]
    /\ UNCHANGED <<transaction, num_readers, fsw, fsdata, disklabel, db>>

\* The caller of sync_transaction has its result
SyncReturn ==
    /\ sync.pc = "done"
    /\ sync' = IdleSync
    /\ UNCHANGED <<transaction, num_readers, exclusive, fsw, fsdata,
                   disklabel, db>>

\* The system stops at any point and the pool is imported: the label is
\* read; IDML::open takes the transaction group and Database::open the
\* forest from it.  A label that was being written cannot be read.
\* db keeps what the import returned, beside what the last completed
\* sync_transaction flushed and what the last completely written label held,
\* now (synced, written) and when the pool was imported (isynced, iwritten).
CrashImport ==
    /\ disklabel.state # "none"
    /\ db.state # "unreadable"
    /\ fsw' = [t \in Tasks |-> IdleFsw]
    /\ sync' = IdleSync
    /\ num_readers' = 0
    /\ exclusive' = FALSE
    /\ IF disklabel.state = "ok"
       THEN /\ transaction' = disklabel.txg
            /\ fsdata' = disklabel.data
            /\ db' = [db EXCEPT !.state = "imported",
                                 !.data = disklabel.data,
                                 !.isynced = db.synced,
                                 !.iwritten = db.written]
       ELSE /\ db' = [db EXCEPT !.state = "unreadable", !.data = 0,
                                 !.isynced = db.synced,
                                 !.iwritten = db.written]
            /\ UNCHANGED <<transaction, fsdata>>
    /\ UNCHANGED disklabel

\* ------------------------------------------------------- Tree: the nodes
\* K::min_value()
MinKey == 0
TKeys == MinKey .. (MaxKey - 1)
TVals == 1 .. MaxVal

\* Inner::max_fanout, which Tree::new takes from its caller
max_fanout == tfanout

\* NodeData::Leaf and NodeData::Int.  id tells the node objects (the locks)
\* apart where an operation holds a reference to one: 1 for the root, 0 for
\* a node nothing has referred to.
LeafNode(id, items) ==
    [id |-> id, leaf |-> TRUE, items |-> items, children |-> <<>>]
IntNode(id, children) ==
    [id |-> id, leaf |-> FALSE, items |-> <<>>, children |-> children]
Item(k, v) == [key |-> k, val |-> v]
\* IntElem: ptr is the variant of the TreePtr, node the node it owns ("Mem")
\* or the node stored at its address ("Addr")
IntElem(key, ptr, node) == [key |-> key, ptr |-> ptr, node |-> node]
NoNode == LeafNode(0, <<>>)

\* the value in a set of one: Only({e(x) : x \in {v}}) computes v once,
\* whatever the number of places e names it in
Only(S) == CHOOSE x \in S : TRUE

InsertAt(s, i, e) == SubSeq(s, 1, i - 1) \o <<e>> \o SubSeq(s, i, Len(s))
RemoveAt(s, i) == SubSeq(s, 1, i - 1) \o SubSeq(s, i + 1, Len(s))

NodeLen(node) == IF node.leaf THEN Len(node.items) ELSE Len(node.children)
\* Node::key: the first key of the node
NodeKey(node) ==
    IF node.leaf THEN node.items[1].key ELSE node.children[1].key
WithEntries(node, s) ==
    IF node.leaf THEN [node EXCEPT !.items = s]
    ELSE [node EXCEPT !.children = s]
Entries(node) == IF node.leaf THEN node.items ELSE node.children

\* LeafData::get
LeafGet(node, k) ==
    IF \E i \in 1 .. Len(node.items) : node.items[i].key = k
    THEN node.items[CHOOSE i \in 1 .. Len(node.items) :
                        node.items[i].key = k].val
    ELSE NoVal
\* LeafData::insert: the items stay ordered by key, one item per key
LeafInsert(node, k, v) ==
    LET Below(x) == x.key < k
        Above(x) == x.key > k
    IN [node EXCEPT !.items = SelectSeq(node.items, Below) \o <<Item(k, v)>>
                                  \o SelectSeq(node.items, Above)]
\* LeafData::remove
LeafRemove(node, k) ==
    LET Other(x) == x.key # k
    IN [node EXCEPT !.items = SelectSeq(node.items, Other)]

\* IntData::position: the last child whose key is at most k, the first child
\* if there is none
Position(children, k) ==
    LET S == {i \in 1 .. Len(children) : children[i].key <= k}
    IN IF S = {} THEN 1 ELSE CHOOSE i \in S : \A j \in S : j <= i

\* a full node takes no more entries
should_split(node) == NodeLen(node) >= max_fanout
\* a node with at most limit entries is in danger of an underflow
underflow(node, limit) == NodeLen(node) <= limit
can_merge_Always(node, other) == TRUE
can_merge(node, other) == NodeLen(node) + NodeLen(other) <= max_fanout

\* NodeData::split: the node keeps the low half of its entries, the high half
\* moves to a new node
Split(node) ==
    LET s == Entries(node)
        cutoff == Len(s) \div 2
    IN [left |-> WithEntries(node, SubSeq(s, 1, cutoff)),
        right |-> [WithEntries(node, SubSeq(s, cutoff + 1, Len(s)))
                      EXCEPT !.id = 0]]
\* NodeData::merge: the entries of other, the node to the right, move here
Merge(node, other) == WithEntries(node, Entries(node) \o Entries(other))
\* the number of entries a node in danger steals from its sibling
KeysToShare(node, other) ==
    IF NodeLen(other) > NodeLen(node)
    THEN (NodeLen(other) - NodeLen(node)) \div 2 ELSE 0
\* NodeData::take_low_keys: steal the lowest entries of the right sibling
TakeLowKeys(node, other) ==
    LET n == KeysToShare(node, other)
        s == Entries(other)
    IN [node |-> WithEntries(node, Entries(node) \o SubSeq(s, 1, n)),
        other |-> WithEntries(other, SubSeq(s, n + 1, Len(s)))]
\* NodeData::take_high_keys: steal the highest entries of the left sibling
TakeHighKeys(node, other) ==
    LET n == KeysToShare(node, other)
        s == Entries(other)
    IN [node |-> WithEntries(node,
                     SubSeq(s, Len(s) - n + 1, Len(s)) \o Entries(node)),
        other |-> WithEntries(other, SubSeq(s, 1, Len(s) - n))]

\* IntElem::xlock of child idx: a child that is on disk is popped from the
\* DML and becomes a node in memory
XLock(node, idx) == [node EXCEPT !.children[idx].ptr = "Mem"]

\* ------------------------------------------------------------ Tree::get
RECURSIVE get_r(_, _)
get_r(node, k) ==
    IF node.leaf THEN LeafGet(node, k)
    ELSE get_r(node.children[Position(node.children, k)].node, k)

\* ---------------------------------------------------------- Tree::insert
RECURSIVE insert_int(_, _, _, _)
RECURSIVE insert_int_no_split(_, _, _)
\* both return the node they were given, after the insertion, and the value
\* that was stored under k
insert_int_no_split(node, k, v) ==
    LET child_idx == Position(node.children, k)
    IN insert_int(XLock(node, child_idx), child_idx, k, v)

insert_int(parent, child_idx, k, v) ==
    LET child == parent.children[child_idx].node
    IN IF should_split(child)
       THEN LET halves == Split(child)
                new_elem == IntElem(NodeKey(halves.right), "Mem",
                                    halves.right)
                kept == [parent.children EXCEPT
                            ![child_idx].node = halves.left]
            IN insert_int_no_split(
                   [parent EXCEPT !.children =
                        InsertAt(kept, child_idx + 1, new_elem)], k, v)
       ELSE IF child.leaf
       THEN [node |-> [parent EXCEPT !.children[child_idx].node =
                                         LeafInsert(child, k, v)],
             ret |-> LeafGet(child, k)]
       ELSE LET r == insert_int_no_split(child, k, v)
            IN [node |-> [parent EXCEPT !.children[child_idx].node = r.node],
                ret |-> r.ret]

\* Tree::insert_locked
insert_locked_DroppingHalf(rnode, k, v) ==
    LET halves == Split(rnode)
        old_elem == IntElem(MinKey, "Mem", [halves.left EXCEPT !.id = 0])
        root == IF should_split(rnode)
                THEN IntNode(rnode.id, <<old_elem>>)
                ELSE rnode
    IN IF root.leaf
       THEN [node |-> LeafInsert(root, k, v), ret |-> LeafGet(root, k)]
       ELSE insert_int_no_split(root, k, v)
insert_locked(rnode, k, v) ==
    LET halves == Split(rnode)
        old_elem == IntElem(MinKey, "Mem", [halves.left EXCEPT !.id = 0])
        new_elem == IntElem(NodeKey(halves.right), "Mem", halves.right)
        root == IF should_split(rnode)
                THEN IntNode(rnode.id, <<old_elem, new_elem>>)
                ELSE rnode
    IN IF root.leaf
       THEN [node |-> LeafInsert(root, k, v), ret |-> LeafGet(root, k)]
       ELSE insert_int_no_split(root, k, v)

\* ---------------------------------------------------------- Tree::remove
\* Tree::fix_int: fix child child_idx of parent, which is in danger of an
\* underflow, with the right sibling, or the left one for the last child;
\* before and after count the nodes merged before and after the child.  The
\* index of the left sibling of the only child wraps below zero, so no such
\* child can be locked: the task panics.
fix_int(parent, child_idx) ==
    LET nchildren == Len(parent.children)
        right == child_idx < nchildren
        sib_idx == IF right THEN child_idx + 1 ELSE child_idx - 1
        locked == XLock(parent, sib_idx)
        child == locked.children[child_idx].node
        sibling == locked.children[sib_idx].node
        low == TakeLowKeys(child, sibling)
        high == TakeHighKeys(child, sibling)
    IN IF sib_idx < 1
       THEN [parent |-> parent, before |-> 0, after |-> 0, st |-> "panic"]
       ELSE IF right /\ can_merge(child, sibling)
       THEN [parent |-> [locked EXCEPT !.children = RemoveAt(
                   [locked.children EXCEPT
                       ![child_idx].node = Merge(child, sibling)], sib_idx)],
             before |-> 0, after |-> 1, st |-> "ok"]
       ELSE IF right
       THEN [parent |-> [locked EXCEPT
                   !.children[child_idx].node = low.node,
                   !.children[sib_idx].node = low.other,
                   !.children[sib_idx].key = NodeKey(low.other)],
             before |-> 0, after |-> 0, st |-> "ok"]
       ELSE IF can_merge(sibling, child)
       THEN [parent |-> [locked EXCEPT !.children = RemoveAt(
                   [locked.children EXCEPT
                       ![sib_idx].node = Merge(sibling, child)], child_idx)],
             before |-> 1, after |-> 0, st |-> "ok"]
       ELSE [parent |-> [locked EXCEPT
                   !.children[child_idx].node = high.node,
                   !.children[child_idx].key = NodeKey(high.node),
                   !.children[sib_idx].node = high.other],
             before |-> 1, after |-> 1, st |-> "ok"]

RECURSIVE remove_int(_, _, _)
RECURSIVE remove_no_fix(_, _)
\* both return the node they were given, after the removal, the value that
\* was stored under k, and whether the task panicked
remove_no_fix(node, k) ==
    IF node.leaf
    THEN [node |-> LeafRemove(node, k), ret |-> LeafGet(node, k),
          st |-> "ok"]
    ELSE LET child_idx == Position(node.children, k)
         IN remove_int(XLock(node, child_idx), child_idx, k)

remove_int(parent, child_idx, k) ==
    LET child == parent.children[child_idx].node
        \* remove_no_fix on child i of p, which is locked
        Descend(p, i) ==
            Only({[node |-> [p EXCEPT !.children[i].node = r.node],
                   ret |-> r.ret, st |-> r.st] :
                  r \in {remove_no_fix(p.children[i].node, k)}})
    IN IF underflow(child, min_fanout)
       THEN Only({IF fixed.st = "panic"
                  THEN [node |-> parent, ret |-> NoVal, st |-> "panic"]
                  ELSE Only({Descend(XLock(fixed.parent, idx), idx) :
                             idx \in {Position(fixed.parent.children, k)}}) :
                  fixed \in {fix_int(parent, child_idx)}})
       ELSE Descend(parent, child_idx)

\* Tree::merge_root: a root with a single child becomes that child, which
\* must be in memory
merge_root(root) ==
    IF ~root.leaf /\ Len(root.children) = 1
    THEN IF root.children[1].ptr = "Mem"
         THEN [node |-> [root.children[1].node EXCEPT !.id = root.id],
               dh |-> 1, st |-> "ok"]
         ELSE [node |-> root, dh |-> 0, st |-> "panic"]
    ELSE [node |-> root, dh |-> 0, st |-> "ok"]

\* Tree::remove_locked
remove_locked(root, k) ==
    Only({IF m.st = "panic"
          THEN [node |-> root, ret |-> NoVal, st |-> "panic", dh |-> 0]
          ELSE Only({[node |-> r.node, ret |-> r.ret, st |-> r.st,
                      dh |-> m.dh] :
                     r \in {remove_no_fix(m.node, k)}}) :
          m \in {merge_root(root)}})

\* ----------------------------------------------------- Tree::range_delete
\* std::ops::Bound
Unbounded == [kind |-> "Unbounded", at |-> 0]
Included(x) == [kind |-> "Included", at |-> x]
Excluded(x) == [kind |-> "Excluded", at |-> x]
\* RangeBounds: a range of keys
KeyRange(lo, hi) == [lo |-> lo, hi |-> hi]
InRange(k, range) ==
    /\ \/ range.lo.kind = "Unbounded"
       \/ range.lo.kind = "Included" /\ range.lo.at <= k
       \/ range.lo.kind = "Excluded" /\ range.lo.at < k
    /\ \/ range.hi.kind = "Unbounded"
       \/ range.hi.kind = "Included" /\ k <= range.hi.at
       \/ range.hi.kind = "Excluded" /\ k < range.hi.at
\* Option<K>::None for the key of the node to the right
NoUbound == -1

\* LeafData::range_delete
LeafRangeDelete(node, range) ==
    LET Outside(x) == ~InRange(x.key, range)
    IN [node EXCEPT !.items = SelectSeq(node.items, Outside)]

\* Tree::range_delete_get_bounds: the bounds, as indices, of the affected
\* children of node; the first child has index 1
range_delete_get_bounds(node, range, ubound) ==
    LET l == Len(node.children)
        sidx == Position(node.children, range.lo.at)
        eidx == Position(node.children, range.hi.at)
        past == ubound # NoUbound /\ range.hi.at >= ubound
    IN [s |-> IF range.lo.kind = "Unbounded" THEN Included(1)
              ELSE IF range.lo.at < NodeKey(node) THEN Included(1)
              ELSE IF range.lo.kind = "Included"
              THEN IF node.children[sidx].key = range.lo.at
                   THEN Included(sidx) ELSE Excluded(sidx)
              ELSE Excluded(sidx),
        e |-> IF range.hi.kind = "Unbounded" THEN Excluded(l + 2)
              ELSE IF range.hi.kind = "Included"
              THEN IF past THEN Excluded(eidx + 1) ELSE Included(eidx)
              ELSE IF past THEN Excluded(eidx + 1)
              ELSE IF node.children[eidx].key = range.hi.at
                   THEN Excluded(eidx) ELSE Included(eidx)]

\* children_to_fix: the children at the beginning and at the end of the
\* range that the passes recurse into, 0 for None
CutChildren(b) ==
    IF b.s.kind = "Included" /\ b.e.kind = "Excluded"
    THEN [s |-> 0, e |-> 0]
    ELSE IF b.s.kind = "Included" THEN [s |-> 0, e |-> b.e.at]
    ELSE IF b.e.kind = "Excluded" THEN [s |-> b.s.at, e |-> 0]
    ELSE IF b.e.at > b.s.at THEN [s |-> b.s.at, e |-> b.e.at]
    ELSE [s |-> b.s.at, e |-> 0]
CutCount(c) == (IF c.s = 0 THEN 0 ELSE 1) + (IF c.e = 0 THEN 0 ELSE 1)

\* the first key of the node to the right of child idx
ChildUbound(node, idx, ubound) ==
    IF idx < Len(node.children) THEN node.children[idx + 1].key ELSE ubound

RECURSIVE range_delete_pass1(_, _, _)
\* returns the node it was given, after the deletion, and whether the task
\* panicked.  A node without children has no key and no child to lock.
range_delete_pass1(node, range, ubound) ==
    IF node.leaf
    THEN [node |-> LeafRangeDelete(node, range), st |-> "ok"]
    ELSE IF Len(node.children) = 0 THEN [node |-> node, st |-> "panic"]
    ELSE
    LET l == Len(node.children)
        \* recurse into child i of n, if there is one to recurse into
        Recurse(n, i) ==
            IF i = 0 THEN [node |-> n, st |-> "ok"]
            ELSE Only({[node |-> [XLock(n, i) EXCEPT
                                     !.children[i].node = r.node],
                        st |-> r.st] :
                       r \in {range_delete_pass1(
                                  XLock(n, i).children[i].node, range,
                                  ChildUbound(n, i, ubound))}})
        \* Finally, remove nodes in the middle
        Drain(n2, b) ==
            LET low == IF b.s.kind = "Excluded" THEN b.s.at + 1 ELSE b.s.at
                high == b.e.at
            IN IF high > low
               THEN \* children.drain(low..high) panics past the end of the
                    \* vector
                    IF high > l + 1 THEN [node |-> node, st |-> "panic"]
                    ELSE [node |-> [n2 EXCEPT !.children =
                                       SubSeq(n2.children, 1, low - 1)
                                       \o SubSeq(n2.children, high, l)],
                          st |-> "ok"]
               ELSE [node |-> n2, st |-> "ok"]
    IN Only({
         Only({
           IF ri.st = "panic" THEN [node |-> node, st |-> "panic"]
           ELSE Only({IF rj.st = "panic"
                      THEN [node |-> node, st |-> "panic"]
                      ELSE Drain(rj.node, b) :
                      rj \in {Recurse(ri.node, CutChildren(b).e)}}) :
           ri \in {Recurse(node, CutChildren(b).s)}}) :
         b \in {range_delete_get_bounds(node, range, ubound)}})

\* Tree::fix_if_in_danger
fix_if_in_danger(parent, child_idx, range, ubound) ==
    LET child == parent.children[child_idx].node
        cut_grandkids ==
            CutCount(CutChildren(
                range_delete_get_bounds(child, range, ubound)))
    IN IF underflow(child, min_fanout - 1) THEN fix_int(parent, child_idx)
       ELSE IF ~child.leaf
               /\ Len(child.children) - cut_grandkids <= min_fanout - 1
       THEN fix_int(parent, child_idx)
       ELSE [parent |-> parent, before |-> 0, after |-> 0, st |-> "ok"]

RECURSIVE range_delete_pass2(_, _, _)
RECURSIVE fixit(_, _, _, _)
\* the closure fixit of range_delete_pass2: fix child idx of the node if it
\* is in danger, then fix the subtree under it.  Locking a child that is not
\* there panics.
fixit(parent_guard, idx, range, ubound) ==
    LET child_ubound == ChildUbound(parent_guard, idx, ubound)
        Panicked == [node |-> parent_guard, merged |-> 0, st |-> "panic"]
    IN IF idx < 1 \/ idx > Len(parent_guard.children) THEN Panicked
       ELSE Only({
         LET at == idx - f.before
             p == XLock(f.parent, at)
         IN IF f.st = "panic" THEN Panicked
            ELSE IF at < 1 \/ at > Len(f.parent.children) THEN Panicked
            ELSE Only({[node |-> [p EXCEPT !.children[at].node = r.node],
                        merged |-> f.before + f.after, st |-> r.st] :
                       r \in {range_delete_pass2(p.children[at].node, range,
                                                 child_ubound)}}) :
         f \in {fix_if_in_danger(XLock(parent_guard, idx), idx, range,
                                 child_ubound)}})

range_delete_pass2(node, range, ubound) ==
    IF node.leaf THEN [node |-> node, st |-> "ok"]
    ELSE IF Len(node.children) = 0 THEN [node |-> node, st |-> "panic"]
    ELSE
    Only({
      Only({
        IF first.st = "panic" THEN [node |-> node, st |-> "panic"]
        ELSE IF cut.e = 0 THEN [node |-> first.node, st |-> first.st]
        ELSE Only({[node |-> second.node, st |-> second.st] :
                   second \in {fixit(first.node, cut.e - first.merged,
                                     range, ubound)}}) :
        first \in {IF cut.s = 0
                   THEN [node |-> node, merged |-> 0, st |-> "ok"]
                   ELSE fixit(node, cut.s, range, ubound)}}) :
      cut \in {CutChildren(range_delete_get_bounds(node, range, ubound))}})

\* Tree::range_delete: both passes, then the root is collapsed
range_delete(root, range) ==
    LET Panicked == [node |-> root, st |-> "panic", dh |-> 0]
    IN Only({
         IF p1.st = "panic" THEN Panicked
         ELSE Only({
           IF p2.st = "panic" THEN Panicked
           ELSE Only({IF m.st = "panic" THEN Panicked
                      ELSE [node |-> m.node, st |-> "ok", dh |-> m.dh] :
                      m \in {merge_root(p2.node)}}) :
           p2 \in {range_delete_pass2(p1.node, range, NoUbound)}}) :
         p1 \in {range_delete_pass1(root, range, NoUbound)}})

\* ----------------------------------------------------------- Tree::range
\* LeafData::range: the items of the leaf in the range, and whether the
\* range may go on past the last key of the leaf
LeafRange(node, range) ==
    LET Inside(x) == InRange(x.key, range)
        n == Len(node.items)
    IN [v |-> SelectSeq(node.items, Inside),
        more |-> \/ n = 0
                 \/ range.hi.kind = "Unbounded"
                 \/ node.items[n].key < range.hi.at]

RECURSIVE get_range_r(_, _, _, _)
\* next is the node immediately to the right of node, when has_next; returns
\* the items found and the bound the query goes on from, when there is one
get_range_r(node, has_next, next, range) ==
    IF node.leaf
    THEN LET lr == LeafRange(node, range)
         IN IF lr.v = <<>> /\ lr.more /\ has_next
            THEN get_range_r(next, FALSE, NoNode, range)
            ELSE IF lr.v = <<>>
            THEN [v |-> lr.v, some |-> FALSE, bound |-> Unbounded,
                  st |-> "ok"]
            ELSE IF lr.more /\ has_next
            THEN IF NodeLen(next) = 0
                 THEN [v |-> lr.v, some |-> FALSE, bound |-> Unbounded,
                       st |-> "panic"]
                 ELSE [v |-> lr.v, some |-> TRUE,
                       bound |-> Included(NodeKey(next)), st |-> "ok"]
            ELSE [v |-> lr.v, some |-> FALSE, bound |-> Unbounded,
                  st |-> "ok"]
    ELSE LET child_idx == IF range.lo.kind = "Unbounded" THEN 1
                          ELSE Position(node.children, range.lo.at)
         IN IF child_idx < Len(node.children)
            THEN get_range_r(node.children[child_idx].node, TRUE,
                             node.children[child_idx + 1].node, range)
            ELSE get_range_r(node.children[child_idx].node, has_next, next,
                             range)

RECURSIVE RangeQuery(_, _, _)
\* RangeQuery::poll until the stream ends: get_range from the cursor on,
\* as long as there is a cursor
RangeQuery(root, cursor, end) ==
    LET g == get_range_r(root, FALSE, NoNode, KeyRange(cursor, end))
        more == RangeQuery(root, g.bound, end)
    IN IF g.st = "panic" THEN [v |-> g.v, st |-> "panic"]
       ELSE IF g.some THEN [v |-> g.v \o more.v, st |-> more.st]
       ELSE [v |-> g.v, st |-> "ok"]

\* Tree::range(R), collected
TreeRange(root, r) == RangeQuery(root.node, r.lo, r.hi)

\* ----------------------------------------------------------- Tree::flush
RECURSIVE flush_r(_)
\* every node in memory under node is written and its pointer becomes an
\* address
flush_r(node) ==
    IF node.leaf THEN node
    ELSE [node EXCEPT !.children =
             [i \in 1 .. Len(node.children) |->
                 IF node.children[i].ptr = "Mem"
                 THEN [node.children[i] EXCEPT
                          !.ptr = "Addr",
                          !.node = flush_r(node.children[i].node)]
                 ELSE node.children[i]]]

RECURSIVE flush_puts(_, _)
RECURSIVE ChildPuts(_, _, _)
\* history: the nodes flush_r gives to DML::put, in the order of the puts; a
\* node is named by the indices of the children on the way to it.  The put
\* of a node is in the continuation of the join_all of its children.
ChildPuts(node, path, i) ==
    IF i > Len(node.children) THEN <<>>
    ELSE (IF node.children[i].ptr = "Mem"
          THEN flush_puts(node.children[i].node, Append(path, i))
          ELSE <<>>) \o ChildPuts(node, path, i + 1)
flush_puts(node, path) ==
    IF node.leaf THEN <<path>>
    ELSE ChildPuts(node, path, 1) \o <<path>>

\* -------------------------------------------------- Tree: the operations
\* what the last operation on the tree was given and what it returned
NoRange == KeyRange(Unbounded, Unbounded)
IdleLast == [op |-> "none", k |-> MinKey, v |-> NoVal, r |-> NoRange,
             ret |-> NoVal, st |-> "ok", puts |-> <<>>]

\* Tree::get of the tree under the root element
TreeGet(root, k) == get_r(root.node, k)

\* the tree can be operated on: no task panicked in it, and its root was not
\* lost
TreeUsable == tlast.st # "panic" /\ troot.ptr # "None"

\* Tree::insert: xlock_root brings the root into memory, insert_locked does
\* the rest
TInsert(k, v) ==
    /\ TreeUsable
    /\ \E r \in {insert_locked(troot.node, k, v)} :
          /\ troot' = [troot EXCEPT !.ptr = "Mem", !.node = r.node]
          /\ theight' = IF should_split(troot.node) THEN theight + 1
                        ELSE theight
          /\ tlast' = [IdleLast EXCEPT !.op = "insert", !.k = k, !.v = v,
                                       !.ret = r.ret]

\* Tree::remove
TRemove(k) ==
    /\ TreeUsable
    /\ \E r \in {remove_locked(troot.node, k)} :
          /\ troot' = IF r.st = "panic" THEN troot
                      ELSE [troot EXCEPT !.ptr = "Mem", !.node = r.node]
          /\ theight' = IF r.st = "panic" THEN theight ELSE theight - r.dh
          /\ tlast' = [IdleLast EXCEPT !.op = "remove", !.k = k,
                                       !.ret = r.ret, !.st = r.st]

\* Tree::range_delete
TRangeDelete(range) ==
    /\ TreeUsable
    /\ \E r \in {range_delete(troot.node, range)} :
          /\ troot' = IF r.st = "panic" THEN troot
                      ELSE [troot EXCEPT !.ptr = "Mem", !.node = r.node]
          /\ theight' = IF r.st = "panic" THEN theight ELSE theight - r.dh
          /\ tlast' = [IdleLast EXCEPT !.op = "range_delete", !.r = range,
                                       !.st = r.st]

\* Tree::flush when every DML::put succeeds: a dirty tree becomes clean
TFlush ==
    /\ TreeUsable
    /\ troot' = IF troot.ptr = "Mem"
                THEN [troot EXCEPT !.ptr = "Addr",
                                   !.node = flush_r(troot.node)]
                ELSE troot
    /\ tlast' = [IdleLast EXCEPT
                    !.op = "flush",
                    !.puts = IF troot.ptr = "Mem"
                             THEN flush_puts(troot.node, <<>>) ELSE <<>>]
    /\ UNCHANGED theight

\* Tree::flush when a DML::put fails: the root pointer was replaced by
\* TreePtr::None and the nodes moved into flush_r, whose error drops them
TFlushFail ==
    /\ TreeUsable
    /\ troot.ptr = "Mem"
    /\ troot' = [troot EXCEPT !.ptr = "None", !.node = NoNode]
    /\ tlast' = [IdleLast EXCEPT !.op = "flush", !.st = "error"]
    /\ UNCHANGED theight

\* the ranges given to range_delete and range
TRanges ==
    {KeyRange(lo, hi) :
        lo \in {Unbounded} \cup {Included(k) : k \in TKeys},
        hi \in {Unbounded} \cup {Included(k) : k \in TKeys}
                 \cup {Excluded(k) : k \in TKeys}}
TRangesOrdered ==
    {r \in TRanges : r.lo.kind = "Unbounded" \/ r.hi.kind = "Unbounded"
                     \/ r.lo.at <= r.hi.at}


\* ------------------------------------------- Tree::get beside Tree::insert
\* one key more than TKeys, so that a leaf under the root fills up by
\* inserts alone
CKeys == MinKey .. MaxKey

\* one key more again, for a tree whose leaves hold max_fanout = 5 items
WKeys == MinKey .. (MaxKey + 1)

\* the half-open ranges a .. b that are not empty
WRanges ==
    {r \in {KeyRange(Included(a), Excluded(b)) : a \in TKeys, b \in TKeys} :
        r.lo.at < r.hi.at}

RECURSIVE MaxId(_)
MaxId(node) ==
    LET ids == {node.id} \cup {MaxId(node.children[i].node) :
                                   i \in 1 .. Len(node.children)}
    IN CHOOSE m \in ids : \A n \in ids : n <= m

RECURSIVE LabelNode(_, _)
RECURSIVE LabelChildren(_, _, _)
\* every new node object under node gets an id of its own, from next on
LabelNode(node, next) ==
    LET me == IF node.id = 0 THEN next ELSE node.id
    IN Only({[node |-> [node EXCEPT !.id = me, !.children = c.children],
              next |-> c.next] :
             c \in {LabelChildren(node.children, 1,
                                  IF node.id = 0 THEN next + 1 ELSE next)}})
LabelChildren(children, i, next) ==
    IF i > Len(children) THEN [children |-> children, next |-> next]
    ELSE Only({LabelChildren([children EXCEPT ![i].node = r.node], i + 1,
                             r.next) :
               r \in {LabelNode(children[i].node, next)}})
Relabel(node) == LabelNode(node, MaxId(node) + 1).node

RECURSIVE FindNode(_, _)
\* the node object id, as it is now
FindNode(node, id) ==
    IF node.id = id THEN node
    ELSE LET S == {i \in 1 .. Len(node.children) :
                      FindNode(node.children[i].node, id).id = id}
         IN IF S = {} THEN NoNode
            ELSE FindNode(node.children[CHOOSE i \in S : TRUE].node, id)

IdleRd == [pc |-> "idle", k |-> MinKey, id |-> 0, ret |-> NoVal,
           seen |-> {}]

\* Tree::get, first step: the read lock of the tree is taken, the closure
\* makes the future that will lock the root node and returns, which drops
\* the guard of the tree.  seen collects what is stored under k from now on.
RdStart(k) ==
    /\ TreeUsable
    /\ trd.pc = "idle"
    /\ troot.ptr = "Mem"
    /\ trd' = [IdleRd EXCEPT !.pc = "want_node", !.k = k,
                             !.id = troot.node.id,
                             !.seen = {TreeGet(troot, k)}]
    /\ UNCHANGED <<troot, theight, tlast>>

\* The future made by rlock is polled: the read lock of the node is taken
RdLock ==
    /\ trd.pc = "want_node"
    /\ trd' = [trd EXCEPT !.pc = "at_node"]
    /\ UNCHANGED <<troot, theight, tlast>>

\* Tree::get_r on the locked node: a leaf gives the result; in an Int node
\* the future that will lock the child is made and the guard of the node is
\* dropped
RdStep ==
    /\ trd.pc = "at_node"
    /\ LET node == FindNode(troot.node, trd.id)
       IN trd' = IF node.leaf
                 THEN [trd EXCEPT !.pc = "done",
                                  !.ret = LeafGet(node, trd.k)]
                 ELSE [trd EXCEPT
                          !.pc = "want_node",
                          !.id = node.children[
                                   Position(node.children, trd.k)].node.id]
    /\ UNCHANGED <<troot, theight, tlast>>

RdReturn ==
    /\ trd.pc = "done"
    /\ trd' = IdleRd
    /\ UNCHANGED <<troot, theight, tlast>>

\* Tree::insert by another task, from its first lock to its last, while the
\* get holds no lock
TInsertBesideGet(k, v) ==
    /\ TreeUsable
    /\ trd.pc # "at_node"
    /\ \E root \in
          {[troot EXCEPT !.ptr = "Mem",
               !.node = Relabel(insert_locked(troot.node, k, v).node)]} :
          /\ troot' = root
          /\ theight' = IF should_split(troot.node) THEN theight + 1
                        ELSE theight
          /\ UNCHANGED tlast
          /\ trd' = IF trd.pc = "want_node"
                    THEN [trd EXCEPT !.seen = @ \cup {TreeGet(root, trd.k)}]
                    ELSE trd

\* ------------------------------------------------------ Database::fsread
IdleFsr == [pc |-> "idle", txg |-> 0]

\* Database::fsread: ro_filesystem(tree_id) builds the read-only dataset and
\* f(ds) is called; the IDML's transaction lock is not touched.  txg records
\* the transaction group that was current at the call.
FsReadCall(t) ==
    /\ fsr[t].pc = "idle"
    /\ fsr' = [fsr EXCEPT ![t] = [pc |-> "running", txg |-> transaction]]
    /\ UNCHANGED txgVars

\* The future made by f finishes
FsReadDone(t) ==
    /\ fsr[t].pc = "running"
    /\ fsr' = [fsr EXCEPT ![t] = IdleFsr]
    /\ UNCHANGED txgVars

\* ----------------------------------------------------------------- Mirror
\* Mirror::blockdevs: the children, by index
Children == 0 .. (NumChildren - 1)
\* next_read_idx is an AtomicU32: fetch_add wraps at 2^32, here at 2^IdxBits
IdxWrap == 2 ^ IdxBits
ReadOps == {"read_at", "readv_at", "read_spacemap"}
WriteOps == {"write_at", "writev_at"}
NoChild == -1
IdleWrite == [pc |-> "idle", op |-> "none"]
NoRead == [op |-> "none", child |-> NoChild]

RECURSIVE SumOver(_, _)
SumOver(f, S) ==
    IF S = {} THEN 0
    ELSE LET c == CHOOSE x \in S : TRUE IN f[c] + SumOver(f, S \ {c})
\* the number of reads the mirror has been asked for
ReadsSent == SumOver(mreads, Children)

\* Mirror::read_idx and the read it is for (read_at, readv_at or
\* read_spacemap): fetch_add returns the value before the increment, the read
\* goes to the child at that value modulo the number of children
MReadAfterIncrement(op) ==
    /\ ReadsSent < IdxWrap + NumChildren
    /\ LET idx == ((next_read_idx + 1) % IdxWrap) % NumChildren
       IN /\ mreads' = [mreads EXCEPT ![idx] = @ + 1]
          /\ mlastread' = [op |-> op, child |-> idx]
    /\ next_read_idx' = (next_read_idx + 1) % IdxWrap
    /\ UNCHANGED <<mwrite, mres>>
MRead(op) ==
    /\ ReadsSent < IdxWrap + NumChildren
    /\ LET idx == next_read_idx % NumChildren
       IN /\ mreads' = [mreads EXCEPT ![idx] = @ + 1]
          /\ mlastread' = [op |-> op, child |-> idx]
    /\ next_read_idx' = (next_read_idx + 1) % IdxWrap
    /\ UNCHANGED <<mwrite, mres>>

\* Mirror::write_at, Mirror::writev_at: the write of every child is made and
\* collected into the FuturesUnordered
MWriteCall(op) ==
    /\ mres.pc = "idle"
    /\ mwrite' = [c \in Children |-> "issued"]
    /\ mres' = [pc |-> "pending", op |-> op]
    /\ UNCHANGED <<next_read_idx, mreads, mlastread>>

\* the write of child c completes, with or without an error
MChildDone(c, ok) ==
    /\ mwrite[c] = "issued"
    /\ mwrite' = [mwrite EXCEPT ![c] = IF ok THEN "ok" ELSE "err"]
    /\ UNCHANGED <<mres, next_read_idx, mreads, mlastread>>

\* try_collect: the first error ends the future with that error; it is Ok
\* when the stream has ended, every child having completed
MWriteDoneAny ==
    /\ mres.pc = "pending"
    /\ IF \E c \in Children : mwrite[c] = "err"
       THEN mres' = [mres EXCEPT !.pc = "err"]
       ELSE /\ \E c \in Children : mwrite[c] = "ok"
            /\ mres' = [mres EXCEPT !.pc = "ok"]
    /\ UNCHANGED <<mwrite, next_read_idx, mreads, mlastread>>
MWriteDone ==
    /\ mres.pc = "pending"
    /\ IF \E c \in Children : mwrite[c] = "err"
       THEN mres' = [mres EXCEPT !.pc = "err"]
       ELSE /\ \A c \in Children : mwrite[c] = "ok"
            /\ mres' = [mres EXCEPT !.pc = "ok"]
    /\ UNCHANGED <<mwrite, next_read_idx, mreads, mlastread>>

\* the caller has the result; the futures of the children are dropped
MWriteReturn ==
    /\ mres.pc \in {"ok", "err"}
    /\ mres' = IdleWrite
    /\ mwrite' = [c \in Children |-> "none"]
    /\ UNCHANGED <<next_read_idx, mreads, mlastread>>

\* ----------------------------------------------------------- Mirror::open
\* the UUIDs a mirror label can carry; Option<Uuid>::None
Uuids == 1 .. NumUuids
NoUuid == 0
NotOpened == [st |-> "none", expected |-> NoUuid,
              labels |-> [c \in Children |-> NoUuid], uuid |-> NoUuid]

\* Mirror::open(uuid, combined), labels[c] being the UUID in the label of
\* child c: assert_eq! panics on the first label that differs from a given
\* uuid; the mirror takes the UUID of the first child's label
mirror_open(uuid, labels) ==
    IF uuid # NoUuid /\ \E c \in Children : labels[c] # uuid
    THEN [st |-> "panic", expected |-> uuid, labels |-> labels,
          uuid |-> NoUuid]
    ELSE [st |-> "opened", expected |-> uuid, labels |-> labels,
          uuid |-> labels[0]]

MOpen(uuid, labels) ==
    /\ mopen' = mirror_open(uuid, labels)
    /\ UNCHANGED mirrorVars

\* ------------------------------------------------------------- VdevFile
\* vdev_file.rs.  LbaT and the byte offset are u64; the model keeps the
\* width, scaled to LbaBits bits.  A build with overflow checks panics where
\* an addition or a multiplication overflows, a build without them wraps.
LbaWrap == 2 ^ LbaBits
Lbas == 0 .. LbaWrap - 1
BufLbas == 1 .. 2

\* BYTES_PER_LBA, scaled
BYTES_PER_LBA == 2

\* VdevFile::reserved_space
reserved_space ==
    LET LABEL_COUNT == 2
        LABEL_LBAS == 1
        spacemap_space == 1
    IN LABEL_COUNT * (LABEL_LBAS + spacemap_space)

NoCall == [op |-> "none", lba |-> 0, lbas |-> 0, st |-> "none",
           touched |-> {}]

\* VdevFile::write_at_unchecked and writev_at_unchecked: the byte offset is
\* lba * BYTES_PER_LBA in the width of u64; the file takes it as an off_t, and
\* no write happens at a negative one.
write_at_unchecked(op, lba, lbas, checked) ==
    LET prod == lba * BYTES_PER_LBA
        off == prod % LbaWrap
    IN IF prod >= LbaWrap /\ checked
       THEN [op |-> op, lba |-> lba, lbas |-> lbas, st |-> "panic",
             touched |-> {}]
       ELSE IF off >= LbaWrap \div 2
       THEN [op |-> op, lba |-> lba, lbas |-> lbas, st |-> "einval",
             touched |-> {}]
       ELSE [op |-> op, lba |-> lba, lbas |-> lbas, st |-> "ok",
             touched |-> {(off \div BYTES_PER_LBA) + i : i \in 0 .. lbas - 1}]

\* VdevFile::write_at and VdevFile::writev_at
write_at(op, lba, lbas, checked) ==
    IF ~(lba >= reserved_space)
    THEN [op |-> op, lba |-> lba, lbas |-> lbas, st |-> "panic",
          touched |-> {}]
    ELSE write_at_unchecked(op, lba, lbas, checked)

\* VdevFile::write_spacemap
write_spacemap(lba, lbas, checked) ==
    LET sum == lba + lbas
    IN IF (sum >= LbaWrap /\ checked) \/ ~(sum % LbaWrap <= reserved_space)
       THEN [op |-> "write_spacemap", lba |-> lba, lbas |-> lbas,
             st |-> "panic", touched |-> {}]
       ELSE write_at_unchecked("write_spacemap", lba, lbas, checked)

VWriteAt(lba, lbas, checked) ==
    vfile' = write_at("write_at", lba, lbas, checked)

VWritevAt(lba, lbas, checked) ==
    vfile' = write_at("writev_at", lba, lbas, checked)

VWriteSpacemap(lba, lbas, checked) ==
    vfile' = write_spacemap(lba, lbas, checked)

\* ---------------------------------------------------------- Compression
\* dml.rs.  A buffer is what it holds ("input": the caller's bytes,
\* "compressed": the output of the compressor) and its length in bytes; the
\* length of the compressor's output is an input of the model.
Modes == {"None", "LZ4", "Zstd"}
Lsizes == 0 .. MaxLsize
Clens == 1 .. MaxLsize + 1
NoCompress == [mode |-> "None", lsize |-> 0, clen |-> 0,
               out |-> [buf |-> "none", len |-> 0, compression |-> "None"],
               drp |-> [compressed |-> FALSE, lsize |-> 0, csize |-> 0]]

\* usize::div_ceil
div_ceil(n, d) == IF n % d > 0 THEN (n \div d) + 1 ELSE n \div d

\* Compression::compress, keeping the compressed form when it is no larger
compress_NoSaving(self, lsize, clen) ==
    IF self = "None" \/ lsize <= BYTES_PER_LBA
    THEN [buf |-> "input", len |-> lsize, compression |-> "None"]
    ELSE IF div_ceil(clen, BYTES_PER_LBA) <= div_ceil(lsize, BYTES_PER_LBA)
    THEN [buf |-> "compressed", len |-> clen, compression |-> self]
    ELSE [buf |-> "input", len |-> lsize, compression |-> "None"]

\* Compression::compress
compress(self, lsize, clen) ==
    IF self = "None" \/ lsize <= BYTES_PER_LBA
    THEN [buf |-> "input", len |-> lsize, compression |-> "None"]
    ELSE LET compressed_lbas == div_ceil(clen, BYTES_PER_LBA)
             uncompressed_lbas == div_ceil(lsize, BYTES_PER_LBA)
         IN IF compressed_lbas < uncompressed_lbas
            THEN [buf |-> "compressed", len |-> clen, compression |-> self]
            ELSE [buf |-> "input", len |-> lsize, compression |-> "None"]

\* DDML::put_common: the DRP made of what compress returned
CPut(self, lsize, clen) ==
    \E r \in {compress(self, lsize, clen)} :
        cmp' = [mode |-> self, lsize |-> lsize, clen |-> clen, out |-> r,
                drp |-> [compressed |-> r.compression # "None",
                         lsize |-> lsize, csize |-> r.len]]

\* ------------------------------------------------- Database: filesystems
\* database.rs.  TreeID::Fs(n) is n; u32 is scaled to 0 .. MaxFsId.
FsIds == 0 .. MaxFsId

\* Database::create: no filesystem in memory, an empty Forest, no label yet
NewDb == [filesystems |-> {}, forest |-> {}, labelled |-> {},
          st |-> "none", ret |-> 0, pre |-> {}]

\* Database::new_fs: the lowest n that is not a key of Inner::filesystems
DbNewFs ==
    LET free == {i \in FsIds : i \notin dbfs.filesystems}
        pre == dbfs.filesystems \cup dbfs.forest
    IN IF free = {}
       THEN dbfs' = [dbfs EXCEPT !.st = "panic", !.ret = 0, !.pre = pre]
       ELSE \E k \in free :
              /\ \A j \in free : k <= j
              /\ dbfs' = [dbfs EXCEPT
                            !.filesystems = @ \cup {k},
                            !.st = "ok", !.ret = k, !.pre = pre]

\* Database::sync_transaction: the TreeOnDisk of every filesystem in memory
\* is inserted into the Forest, and the label takes the Forest
DbSync ==
    \E f \in {dbfs.forest \cup dbfs.filesystems} :
        dbfs' = [dbfs EXCEPT !.forest = f, !.labelled = f,
                             !.st = "none", !.ret = 0]

\* Database::open: Database::new with the Forest of the label
DbOpen ==
    dbfs' = [dbfs EXCEPT !.filesystems = {}, !.forest = dbfs.labelled,
                         !.st = "none", !.ret = 0]

\* ----------------------------------------------------------- DevManager
\* device_manager.rs.  A UUID is a number; device d carries the label of the
\* leaf d, of the raid RaidOf(d) and of the pool PoolOf(RaidOf(d)).
Devs == 1 .. NumDevs
RaidOf(d) == (d + 1) \div 2
PoolOf(r) == (r + 1) \div 2
Raids == {RaidOf(d) : d \in Devs}
Pools == {PoolOf(r) : r \in Raids}
\* vdev_raid::Label::children and pool::Label::children
RaidChildren(r) == {d \in Devs : RaidOf(d) = r}
PoolChildren(p) == {r \in Raids : PoolOf(r) = p}

\* DevManager::default
NewDevManager == [leaves |-> {}, raids |-> {}, pools |-> {},
                  poisoned |-> FALSE, op |-> "none", st |-> "none",
                  uuid |-> 0,
                  known |-> FALSE]

\* the elements that a loop over `children` in ascending order removes from
\* `have` before it meets one that `have` lacks
RemovedBeforeMissing(children, have) ==
    {c \in children : \A b \in children : b <= c => b \in have}

\* DevManager::taste
DmTaste(d) ==
    IF dm.poisoned
    THEN dm' = [dm EXCEPT !.op = "taste", !.st = "panic", !.uuid = d,
                          !.known = FALSE]
    ELSE dm' = [dm EXCEPT !.leaves = @ \cup {d},
                          !.raids = @ \cup {RaidOf(d)},
                          !.pools = @ \cup {PoolOf(RaidOf(d))},
                          !.op = "taste", !.st = "tasted", !.uuid = d,
                          !.known = FALSE]

\* DevManager::open_labels as DevManager::import and import_clusters call it:
\* every lookup is a remove(..).unwrap() under the mutex of Inner
DmImport(uuid) ==
    LET known == uuid \in dm.pools
        rs == PoolChildren(uuid)
        rsGone == RemovedBeforeMissing(rs, dm.raids)
        ls == UNION {RaidChildren(r) : r \in rs}
        lsGone == RemovedBeforeMissing(ls, dm.leaves)
    IN IF dm.poisoned \/ ~known
       THEN dm' = [dm EXCEPT !.poisoned = TRUE, !.st = "panic",
                             !.op = "import", !.uuid = uuid,
                             !.known = known]
       ELSE IF rsGone # rs
       THEN dm' = [dm EXCEPT !.pools = @ \ {uuid}, !.raids = @ \ rsGone,
                             !.poisoned = TRUE, !.st = "panic",
                             !.op = "import", !.uuid = uuid,
                             !.known = known]
       ELSE IF lsGone # ls
       THEN dm' = [dm EXCEPT !.pools = @ \ {uuid}, !.raids = @ \ rs,
                             !.leaves = @ \ lsGone,
                             !.poisoned = TRUE, !.st = "panic",
                             !.op = "import", !.uuid = uuid,
                             !.known = known]
       ELSE dm' = [dm EXCEPT !.pools = @ \ {uuid}, !.raids = @ \ rs,
                             !.leaves = @ \ ls, !.st = "imported",
                             !.op = "import", !.uuid = uuid,
                             !.known = known]

\* ------------------------------------------------------ bfffsd: the RPCs
\* bfffsd/main.rs.  A request is its type; the controller's answer to the
\* operation, were it made, is an input of the model.
Requests == {"DebugDropCache", "FsCreate", "FsDestroy", "FsList", "FsMount",
             "FsSet", "FsStat", "FsUnmount", "PoolClean"}
Uids == 0 .. NumUids - 1
ControllerResults == {"Ok", "ENOENT", "EBUSY"}
NoRpc == [req |-> "none", uid |-> 0, euid |-> 0,
          resp |-> [variant |-> "none", result |-> "none"],
          called |-> "none"]

\* the arms of process_rpc that compare creds.uid() with geteuid(), less the
\* arm of PoolClean
UidChecked_ButClean ==
    {"DebugDropCache", "FsCreate", "FsDestroy", "FsMount", "FsSet",
     "FsUnmount"}

\* the arms of process_rpc that compare creds.uid() with geteuid()
UidChecked ==
    {"DebugDropCache", "FsCreate", "FsDestroy", "FsMount", "FsSet",
     "FsUnmount", "PoolClean"}

\* the variant of the response that carries the EPERM of each arm
EpermVariant(req) ==
    IF req \in {"DebugDropCache", "FsCreate", "FsDestroy", "FsMount"}
    THEN "FsMount"
    ELSE req

\* the controller operation that each arm makes
ControllerOp(req) ==
    CASE req = "DebugDropCache" -> "drop_cache"
      [] req = "FsCreate" -> "create_fs"
      [] req = "FsDestroy" -> "destroy_fs"
      [] req = "FsList" -> "list_fs"
      [] req = "FsMount" -> "mount"
      [] req = "FsSet" -> "set"
      [] req = "FsStat" -> "get_prop"
      [] req = "FsUnmount" -> "unmount"
      [] req = "PoolClean" -> "clean"

\* Bfffsd::process_rpc
process_rpc(req, uid, euid, cres) ==
    IF req \in UidChecked /\ uid # euid
    THEN [req |-> req, uid |-> uid, euid |-> euid,
          resp |-> [variant |-> EpermVariant(req), result |-> "EPERM"],
          called |-> "none"]
    ELSE [req |-> req, uid |-> uid, euid |-> euid,
          resp |-> [variant |-> req,
                    result |-> IF req = "DebugDropCache" THEN "Ok"
                               ELSE cres],
          called |-> ControllerOp(req)]

ProcessRpc(req, uid, euid, cres) ==
    rpc' = process_rpc(req, uid, euid, cres)

\* ---------------------------------------------------------- pool create
\* bfffs.rs.  The vdev specification is a sequence of tokens: the words
\* "mirror" and "raid", device paths, and numbers.
DevPaths == {"a", "b", "c"}
Numbers == {"1", "2"}
Tokens == {"mirror", "raid"} \cup DevPaths \cup Numbers
VdevSpecs == UNION {[1 .. n -> Tokens] : n \in 1 .. MaxTokens}
NoCreate == [vdev |-> <<>>, st |-> "none", clusters |-> <<>>]
Panic == [k |-> 0, f |-> 0, devs |-> <<>>, panic |-> TRUE]
Cluster(k, f, devs) == [k |-> k, f |-> f, devs |-> devs, panic |-> FALSE]

\* str::parse::<i16>
parse(tok) == IF tok = "1" THEN 1 ELSE 2

\* Builder::create_single
create_single(dev) == Cluster(1, 0, <<dev>>)

\* Builder::create_mirror
create_mirror(devs) ==
    IF Len(devs) < 2
    THEN Panic
    ELSE Cluster(Len(devs), Len(devs) - 1, SubSeq(devs, 3, Len(devs)))

\* Builder::create_raid
create_raid(devs) ==
    IF Len(devs) < 2 \/ devs[1] \notin Numbers \/ devs[2] \notin Numbers
    THEN Panic
    ELSE Cluster(parse(devs[1]), parse(devs[2]), SubSeq(devs, 3, Len(devs)))

\* Builder::create_cluster
create_cluster(vtype, devs) ==
    IF vtype = "mirror" THEN create_mirror(devs) ELSE create_raid(devs)

\* the loop of pool::Create::main from token i on
RECURSIVE CreateLoop(_, _, _, _, _)
CreateLoop(vdev, i, cluster_type, devs, clusters) ==
    IF i > Len(vdev)
    THEN IF devs # <<>>
         THEN \* cluster_type is Some: devs is pushed to only then
              IF create_cluster(cluster_type, devs).panic
              THEN [vdev |-> vdev, st |-> "panic", clusters |-> clusters]
              ELSE [vdev |-> vdev, st |-> "ok",
                    clusters |-> Append(clusters,
                                        create_cluster(cluster_type, devs))]
         ELSE [vdev |-> vdev, st |-> "ok", clusters |-> clusters]
    ELSE IF vdev[i] \in {"mirror", "raid"}
    THEN IF devs # <<>>
         THEN IF create_cluster(cluster_type, devs).panic
              THEN [vdev |-> vdev, st |-> "panic", clusters |-> clusters]
              ELSE CreateLoop(vdev, i + 1, vdev[i], <<>>,
                              Append(clusters,
                                     create_cluster(cluster_type, devs)))
         ELSE CreateLoop(vdev, i + 1, vdev[i], <<>>, clusters)
    ELSE IF cluster_type = "none"
    THEN CreateLoop(vdev, i + 1, cluster_type, devs,
                    Append(clusters, create_single(vdev[i])))
    ELSE CreateLoop(vdev, i + 1, cluster_type, Append(devs, vdev[i]),
                    clusters)

\* pool::Create::main, which a run of the command calls once
PoolCreate(vdev) ==
    /\ pcreate.st = "none"
    /\ pcreate' = CreateLoop(vdev, 1, "none", <<>>, <<>>)

\* ------------------------------------- sync_transaction: the order of work
\* database.rs.  synclog is the history of what the sync_transaction in
\* flight has started, in the order in which it started it.
\* Inner::write_label flushes the Forest and, when that is done, hands the
\* label to IDML::write_label.
LogSyncStart == SyncStart /\ synclog' = <<>>
LogSyncFlush == SyncFlush /\ synclog' = Append(synclog, "flush_trees")
LogSyncAll1 == SyncAll1 /\ synclog' = Append(synclog, "sync_all")
LogSyncLabelBegin ==
    /\ SyncLabelBegin
    /\ synclog' = synclog \o <<"flush_forest", "write_label">>
LogSyncLabelEnd == SyncLabelEnd /\ UNCHANGED synclog
LogSyncAll2 == SyncAll2 /\ synclog' = Append(synclog, "sync_all")
LogSyncAdvance == SyncAdvance /\ synclog' = Append(synclog, "advance")
LogSyncFail == SyncFail /\ UNCHANGED synclog
LogSyncReturn == SyncReturn /\ UNCHANGED synclog

\* ------------------------------------------------- Tree: the node locks
\* tree/mod.rs.  The locks of one Int node, the root (node 0), and of its
\* children (nodes 1 .. NumKids), as a range query and a remove take them.
\* A lock future takes its lock when it is polled and the lock is free.
Kids == 1 .. NumKids
LockNodes == 0 .. NumKids
\* the root is the node that is nobody's child
RootNode == CHOOSE n \in LockNodes : n \notin Kids
NoLocks == [rd |-> {}, wr |-> {},
            r |-> [pc |-> "idle", want |-> {}],
            w |-> [pc |-> "idle", child |-> 0, sib |-> 0, fixed |-> FALSE]]

\* Tree::get_range: the future that locks the root is made
RqStart ==
    /\ tlk.r.pc = "idle"
    /\ tlk' = [tlk EXCEPT !.r = [pc |-> "join", want |-> {RootNode}]]

\* the futures made by rlock are polled, child_fut.join(next_fut): one poll
\* of the join polls both, and each takes its read lock if no writer holds
\* the node
RqPoll ==
    /\ tlk.r.pc = "join"
    /\ (tlk.r.want \ tlk.rd) \ tlk.wr # {}
    /\ tlk' = [tlk EXCEPT !.rd = @ \cup (tlk.r.want \ tlk.wr)]

\* Tree::get_range_r on the root: the futures for children[child_idx] and,
\* if there is one, for children[child_idx + 1] are made, and the guard of
\* the node is dropped
RqStepInt(child_idx) ==
    /\ tlk.r.pc = "join"
    /\ tlk.r.want = {RootNode} /\ RootNode \in tlk.rd
    /\ tlk' = [tlk EXCEPT
                 !.rd = {},
                 !.r.want = IF child_idx < NumKids
                            THEN {child_idx, child_idx + 1}
                            ELSE {child_idx}]

\* Tree::get_range_r on a leaf, with the guards of the leaf and of the next
\* node: the result is made and the guards are dropped
RqStepLeaf ==
    /\ tlk.r.pc = "join"
    /\ tlk.r.want # {RootNode} /\ tlk.r.want \subseteq tlk.rd
    /\ tlk' = [tlk EXCEPT !.rd = {}, !.r = [pc |-> "idle", want |-> {}]]

\* Tree::remove: xlock_root
RmStart ==
    /\ tlk.w.pc = "idle"
    /\ tlk' = [tlk EXCEPT !.w.pc = "want_root"]

RmLockRoot ==
    /\ tlk.w.pc = "want_root"
    /\ RootNode \notin tlk.rd
    /\ tlk' = [tlk EXCEPT !.wr = {RootNode}, !.w.pc = "at_node"]

\* Tree::remove_no_fix on the Int node: node.xlock(dml, child_idx) is made;
\* after fix_int, remove_int makes parent.xlock(dml, child_idx) again
RmXlock(child_idx) ==
    /\ tlk.w.pc = "at_node"
    /\ tlk' = [tlk EXCEPT !.w.pc = "want_child", !.w.child = child_idx]

\* xlock is polled: the child's write lock is taken when nobody holds it.
\* Tree::remove_int: a child in danger of underflow goes to fix_int, which
\* makes parent.xlock(dml, sib_idx) for the right sibling, or the left one
\* of the last child; otherwise the parent's guard is dropped
RmLockChild(in_danger) ==
    /\ tlk.w.pc = "want_child"
    /\ tlk.w.child \notin tlk.rd
    /\ IF tlk.w.fixed
       THEN /\ ~in_danger
            /\ tlk' = [tlk EXCEPT !.wr = {tlk.w.child}, !.w.pc = "at_leaf"]
       ELSE IF in_danger
       THEN tlk' = [tlk EXCEPT
                      !.wr = @ \cup {tlk.w.child},
                      !.w.pc = "want_sib",
                      !.w.sib = IF tlk.w.child < NumKids
                                THEN tlk.w.child + 1
                                ELSE tlk.w.child - 1]
       ELSE tlk' = [tlk EXCEPT !.wr = {tlk.w.child}, !.w.pc = "at_leaf"]

\* fix_int: the sibling's write lock is taken, the nodes are merged or keys
\* are stolen, and the guards of the child and the sibling are dropped
RmFix ==
    /\ tlk.w.pc = "want_sib"
    /\ tlk.w.sib \notin tlk.rd
    /\ tlk' = [tlk EXCEPT !.wr = {RootNode}, !.w.pc = "at_node",
                          !.w.fixed = TRUE]

\* Tree::remove_no_fix on the leaf
RmLeaf ==
    /\ tlk.w.pc = "at_leaf"
    /\ tlk' = [tlk EXCEPT !.wr = {}, !.w = NoLocks.w]

\* what the range query and the remove wait for
RqBlocked ==
    /\ tlk.r.pc = "join"
    /\ tlk.r.want \ tlk.rd # {}
    /\ (tlk.r.want \ tlk.rd) \subseteq tlk.wr
RmBlocked ==
    \/ tlk.w.pc = "want_root" /\ RootNode \in tlk.rd
    \/ tlk.w.pc = "want_child" /\ tlk.w.child \in tlk.rd
    \/ tlk.w.pc = "want_sib" /\ tlk.w.sib \in tlk.rd

\* ------------------------------------------- Tree: the txg ranges (txgs)
\* Range<TxgT>
TxgRange(start, end) == [start |-> start, end |-> end]
\* an IntElem with its txgs; w is the txg in which the node at its address
\* was written, for a pointer that is an address
TxgElem(key, node, txg) ==
    [key |-> key, ptr |-> "Addr", node |-> node,
     txgs |-> TxgRange(txg, txg + 1), w |-> txg]

\* a tree of height 3 as a flush in txg leaves it: min_fanout nodes under the
\* root, min_fanout leaves under each, min_fanout items in each
FlushedLeaf(n, txg) ==
    TxgElem(MinKey + n * min_fanout,
            LeafNode(0, [i \in 1 .. min_fanout |->
                            Item(MinKey + n * min_fanout + i - 1, MaxVal)]),
            txg)
FlushedInt(n, txg) ==
    TxgElem(MinKey + n * min_fanout * min_fanout,
            IntNode(0, [i \in 1 .. min_fanout |->
                           FlushedLeaf(n * min_fanout + i - 1, txg)]),
            txg)
FlushedTree(txg) ==
    TxgElem(MinKey,
            IntNode(1, [i \in 1 .. min_fanout |-> FlushedInt(i - 1, txg)]),
            txg)
FlushedKeys ==
    MinKey .. (MinKey + min_fanout * min_fanout * min_fanout - 1)
\* the first key of every leaf
FlushedFirstKeys == {k \in FlushedKeys : (k - MinKey) % min_fanout = 0}

RECURSIVE xlock_txgs(_, _)
\* IntElem::xlock with the txgs: as xlock_root does for the root, the lock of
\* a child moves the end of its txgs to the transaction after the current
\* one.  The nodes in memory are the ones that were locked in the current
\* transaction.
xlock_txgs(node, txg) ==
    IF node.leaf THEN node
    ELSE [node EXCEPT !.children =
             [i \in 1 .. Len(node.children) |->
                 IF node.children[i].ptr = "Mem"
                 THEN [node.children[i] EXCEPT
                          !.txgs.end = txg + 1,
                          !.node = xlock_txgs(@, txg)]
                 ELSE node.children[i]]]

RECURSIVE insert_txgs(_, _, _, _)
\* Tree::insert_int_no_split and Tree::insert_int where no node on the way
\* is full: the node after the insertion.  insert_leaf_no_split sets the txgs
\* of the leaf's IntElem; the IntElems above it are left as they are.
insert_txgs(node, k, v, txg) ==
    Only({Only({IF parent.children[child_idx].node.leaf
                THEN [parent EXCEPT
                         !.children[child_idx].node =
                             LeafInsert(parent.children[child_idx].node,
                                        k, v),
                         !.children[child_idx].txgs =
                             TxgRange(txg, txg + 1)]
                ELSE [parent EXCEPT
                         !.children[child_idx].node =
                             insert_txgs(parent.children[child_idx].node,
                                         k, v, txg)] :
                parent \in {XLock(node, child_idx)}}) :
          child_idx \in {Position(node.children, k)}})

MinOf(S) == CHOOSE m \in S : \A n \in S : m <= n
MaxOf(S) == CHOOSE m \in S : \A n \in S : n <= m

RECURSIVE flush_txgs(_, _)
\* Tree::flush_r with the txgs it returns: the node with every node in memory
\* under it written, and the start of the node's txgs, whose end is txg + 1
flush_txgs(node, txg) ==
    IF node.leaf THEN [node |-> node, start |-> txg]
    ELSE Only({[node |-> [node EXCEPT !.children = kids],
                start |-> MinOf({kids[i].txgs.start :
                                    i \in 1 .. Len(kids)})] :
               kids \in {[i \in 1 .. Len(node.children) |->
                   IF node.children[i].ptr = "Mem"
                   THEN Only({[node.children[i] EXCEPT
                                  !.ptr = "Addr",
                                  !.node = r.node,
                                  !.txgs = TxgRange(r.start, txg + 1),
                                  !.w = txg] :
                              r \in {flush_txgs(node.children[i].node,
                                                txg)}})
                   ELSE node.children[i]]}})

\* no node of the tree is full: an insert splits nothing
RECURSIVE NoneFull(_)
NoneFull(node) ==
    /\ ~should_split(node)
    /\ \A i \in 1 .. Len(node.children) : NoneFull(node.children[i].node)

\* Tree::insert of a key that the tree holds.  xlock_root moves the end of
\* the root's txgs.
TxInsert(k) ==
    /\ TreeUsable
    /\ NoneFull(troot.node)
    /\ TreeGet(troot, k) # NoVal
    /\ ~troot.node.leaf
    /\ troot' = [troot EXCEPT
                    !.ptr = "Mem",
                    !.txgs.end = transaction + 1,
                    !.node = xlock_txgs(insert_txgs(troot.node, k, MaxVal,
                                                    transaction),
                                        transaction)]
    /\ tlast' = [IdleLast EXCEPT !.op = "insert", !.k = k, !.v = MaxVal,
                                 !.ret = MaxVal]
    /\ UNCHANGED <<theight, transaction>>

\* Tree::remove
TxRemove(k) ==
    /\ TreeUsable
    /\ \E r \in {remove_locked(troot.node, k)} :
          /\ troot' = IF r.st = "panic" THEN troot
                      ELSE [troot EXCEPT !.ptr = "Mem",
                                         !.txgs.end = transaction + 1,
                                         !.node = xlock_txgs(r.node,
                                                             transaction)]
          /\ theight' = IF r.st = "panic" THEN theight ELSE theight - r.dh
          /\ tlast' = [IdleLast EXCEPT !.op = "remove", !.k = k,
                                       !.ret = r.ret, !.st = r.st]
    /\ UNCHANGED transaction

\* Tree::flush when every DML::put succeeds
TxFlush ==
    /\ TreeUsable
    /\ troot.ptr = "Mem"
    /\ \E r \in {flush_txgs(troot.node, transaction)} :
          troot' = [troot EXCEPT
                       !.ptr = "Addr",
                       !.node = r.node,
                       !.txgs = TxgRange(r.start, transaction + 1),
                       !.w = transaction]
    /\ tlast' = [IdleLast EXCEPT !.op = "flush"]
    /\ UNCHANGED <<theight, transaction>>

\* IDML::advance_transaction, which Database::sync_transaction calls after
\* it flushed the trees
TxAdvance ==
    /\ TreeUsable
    /\ troot.ptr = "Addr"
    /\ transaction < MaxTxg
    /\ transaction' = transaction + 1
    /\ tlast' = [IdleLast EXCEPT !.op = "advance"]
    /\ UNCHANGED <<troot, theight>>

\* ------------------------------------------------- VdevFile::erase_zone
\* EraseMethod
EraseMethods == {"None", "Diocgdelete", "Fspacectl", "MaybeFspacectl"}
\* what diocgdelete and fspacectl_all return
SysResults == {"Ok", "ENOSYS", "ENODEV", "EIO"}
\* the first and last LBA of a zone to erase
EraseLbas == 0 .. LbasPerZone
NoErase == [off |-> 0, len |-> 0, sys |-> "none", res |-> "none"]
\* no VdevFile was made yet
NoFile == [method |-> "none", candelete |-> FALSE, have_fspacectl |-> FALSE,
           last |-> NoErase]

\* AtomicEraseMethod::initial
initial(candelete, have_fspacectl) ==
    IF candelete THEN "Diocgdelete"
    ELSE IF have_fspacectl THEN "MaybeFspacectl"
    ELSE "None"

\* VdevFile::erase_zone: the method it leaves, the system call it made with
\* its offset and length, and the result of its future.  ret is what the
\* system call returns if it is made.
erase_zone_Forgetful(em, start, end, ret) ==
    [method |-> IF ret \in {"ENOSYS", "ENODEV"} THEN "None" ELSE em,
     last |-> [off |-> start * BYTES_PER_LBA,
               len |-> (end + 1 - start) * BYTES_PER_LBA,
               sys |-> IF em = "None" THEN "none" ELSE ret,
               res |-> IF em = "None" THEN "Ok" ELSE ret]]
erase_zone(em, start, end, ret) ==
    LET off == start * BYTES_PER_LBA
        len == (end + 1 - start) * BYTES_PER_LBA
    IN CASE em = "None" ->
              [method |-> em,
               last |-> [off |-> off, len |-> len, sys |-> "none",
                         res |-> "Ok"]]
         [] em = "Diocgdelete" ->
              [method |-> em,
               last |-> [off |-> off, len |-> len, sys |-> ret,
                         res |-> ret]]
         [] em = "MaybeFspacectl" ->
              [method |-> IF ret \in {"ENOSYS", "ENODEV"} THEN "None"
                          ELSE IF ret = "Ok" THEN "Fspacectl"
                          ELSE em,
               last |-> [off |-> off, len |-> len, sys |-> ret,
                         res |-> IF ret \in {"ENOSYS", "ENODEV"} THEN "Ok"
                                 ELSE ret]]
         [] em = "Fspacectl" ->
              [method |-> em,
               last |-> [off |-> off, len |-> len, sys |-> ret,
                         res |-> ret]]

\* a VdevFile is made of a file: whether the file does DIOCGDELETE, and
\* whether the build has fspacectl
VdevFileNew(candelete, have_fspacectl) ==
    /\ erase.method = "none"
    /\ erase' = [method |-> initial(candelete, have_fspacectl),
                 candelete |-> candelete,
                 have_fspacectl |-> have_fspacectl,
                 last |-> NoErase]

EraseZone(start, end, ret) ==
    /\ erase.method \in EraseMethods
    /\ start <= end
    /\ \E r \in {erase_zone(erase.method, start, end, ret)} :
          erase' = [erase EXCEPT !.method = r.method, !.last = r.last]

\* ------------------------------------------------------ the specifications
\* IDML::create, or an IDML opened on a pool that holds one record with
\* refs references (as the tests' inject_record makes it)
InitIdml(n) ==
    /\ ridt = [r \in RIDs |-> IF n > 0 /\ r = 0
                              THEN Some(MakeDrp(0, Payload(0)), n) ELSE None]
    /\ alloct = [p \in PBAs |-> IF n > 0 /\ p = 0 THEN 0 ELSE NoRid]
    /\ cache = [r \in RIDs |-> NoVal]
    /\ disk = [p \in PBAs |-> IF n > 0 /\ p = 0 THEN Payload(0) ELSE NoVal]
    /\ allocated = IF n > 0 THEN {0} ELSE {}
    /\ next_pba = IF n > 0 THEN 1 ELSE 0
    /\ next_rid = IF n > 0 THEN 1 ELSE 0
    /\ task = [t \in Tasks |-> IdleTask]
    /\ assigned = IF n > 0 THEN {0} ELSE {}
    /\ everAssigned = assigned
    /\ refs = [r \in RIDs |-> IF r = 0 THEN n ELSE 0]
    /\ label = IF n > 0
               THEN [valid |-> TRUE, alloct |-> alloct, next_rid |-> next_rid,
                     ridt |-> ridt, next_pba |-> next_pba,
                     assigned |-> assigned]
               ELSE NoLabel

\* Database::create on a new IDML
InitTxg ==
    /\ transaction = 0
    /\ num_readers = 0
    /\ exclusive = FALSE
    /\ fsw = [t \in Tasks |-> IdleFsw]
    /\ sync = IdleSync
    /\ fsdata = 0
    /\ disklabel = NoDiskLabel
    /\ db = NoDb

\* DDML::new on an empty pool with an empty cache
InitDdml ==
    /\ dcache = [p \in DPBAs |-> NoVal]
    /\ dpend = [p \in DPBAs |-> FALSE]
    /\ ddisk = [p \in DPBAs |-> NoVal]
    /\ dalloc = {}
    /\ dnext = 0
    /\ dtask = [t \in Tasks |-> IdleDTask]

\* Tree::new: the root is an empty leaf in memory
InitTree ==
    /\ troot = IntElem(MinKey, "Mem", LeafNode(1, <<>>))
    /\ theight = 1
    /\ tlast = IdleLast
    /\ trd = IdleRd
    /\ tfanout = 2 * min_fanout

\* No Database::fsread is in flight
InitFsRead == fsr = [t \in Tasks |-> IdleFsr]

\* Mirror::new: no read was made, no write is in flight
InitMirror ==
    /\ next_read_idx = 0
    /\ mreads = [c \in Children |-> 0]
    /\ mlastread = NoRead
    /\ mwrite = [c \in Children |-> "none"]
    /\ mres = IdleWrite

InitMisc ==
    /\ vfile = NoCall
    /\ cmp = NoCompress
    /\ dbfs = NewDb
    /\ dm = NewDevManager
    /\ rpc = NoRpc
    /\ pcreate = NoCreate
    /\ synclog = <<>>
    /\ tlk = NoLocks
    /\ erase = NoFile

InitDev == InitMirror /\ mopen = NotOpened /\ InitMisc

Init ==
    /\ \E n \in 0 .. MaxRefcount : InitIdml(n)
    /\ InitTxg /\ InitDdml /\ InitFsRead /\ InitTree /\ InitDev

\* The first step of an IDML operation
Begin(t) ==
    \/ PutStart(t)
    \/ \E rid \in RIDs : GetStart(t, rid)
    \/ \E rid \in RIDs : PopStart(t, rid)
    \/ \E rid \in RIDs : DeleteStart(t, rid)
    \/ \E rid \in RIDs : Evict(t, rid)
    \/ \E zone \in Zones : CleanZoneStart(t, zone)
    \/ WriteLabelStart(t)

\* The later steps of the IDML operations
PutSteps(t) ==
    PutDirect(t) \/ PutRidtInsert(t) \/ PutAlloctInsert(t) \/ PutFinish(t)
GetSteps(t) == GetRidt(t) \/ GetDirect(t)
PopSteps(t) ==
    \/ PopClosure(t) \/ PopData(t) \/ PopAlloctRemove(t) \/ PopRidtRemove(t)
    \/ PopRidtInsert(t) \/ PopFinish(t)
DeleteSteps(t) ==
    \/ DeleteClosure(t) \/ DeleteData(t) \/ DeleteAlloctRemove(t)
    \/ DeleteRidtRemove(t) \/ DeleteRidtInsert(t) \/ DeleteFinish(t)
CleanSteps(t) ==
    \/ CleanNext(t) \/ MoveRidtGet(t) \/ MoveRead(t) \/ MovePutDirect(t)
    \/ MoveRidtInsert(t) \/ MoveAlloctInsert(t) \/ MoveFinish(t)
LabelSteps(t) ==
    WriteLabelFlushAlloct(t) \/ WriteLabelFlushRidt(t) \/ WriteLabelWrite(t)

\* IDML operations one after the other: an operation begins when none is in
\* flight; the process may stop and the IDML be opened again at any point
NextIdmlSeq ==
    /\ \/ \E t \in Tasks :
            \/ AllIdle /\ Begin(t)
            \/ PutSteps(t) \/ GetSteps(t) \/ PopSteps(t) \/ DeleteSteps(t)
            \/ CleanSteps(t) \/ LabelSteps(t) \/ Return(t)
       \/ Open
    /\ UNCHANGED <<txgVars, ddmlVars, fsr, treeVars, devVars>>

\* Concurrent get, pop, put and evict of every task
NextGetPop ==
    /\ \E t \in Tasks :
          \/ PutStart(t) \/ PutSteps(t)
          \/ \E rid \in RIDs : GetStart(t, rid)
          \/ GetSteps(t)
          \/ \E rid \in RIDs : PopStart(t, rid)
          \/ PopSteps(t)
          \/ \E rid \in RIDs : Evict(t, rid)
          \/ Return(t)
    /\ UNCHANGED <<txgVars, ddmlVars, fsr, treeVars, devVars>>

\* Concurrent puts of every task, while t1 also deletes records (a delete
\* begins when nothing is in flight) and t2 also writes the label, and the
\* process may stop and the IDML be opened again at any point
NextPut ==
    /\ \/ \E t \in Tasks : PutStart(t) \/ PutSteps(t) \/ Return(t)
       \/ (AllIdle /\ \E rid \in RIDs : DeleteStart("t1", rid))
       \/ DeleteSteps("t1")
       \/ WriteLabelStart("t2") \/ LabelSteps("t2")
       \/ Open
    /\ UNCHANGED <<txgVars, ddmlVars, fsr, treeVars, devVars>>

\* Database::fswrite of concurrent tasks, Database::sync_transaction, and
\* the system stopping
NextTxg ==
    /\ \/ \E t \in Tasks : \/ FsWriteTxg(t) \/ FsWriteCall(t)
                           \/ FsWriteStep(t) \/ FsWriteDone(t)
       \/ SyncStart \/ SyncFlush \/ SyncAll1 \/ SyncLabelBegin
       \/ SyncLabelEnd \/ SyncAll2 \/ SyncAdvance \/ SyncFail \/ SyncReturn
       \/ CrashImport
    /\ UNCHANGED <<idmlVars, ddmlVars, fsr, treeVars, devVars>>

\* Concurrent DDML operations of every task, on DRPs of written blocks
NextDdml ==
    /\ \E t \in Tasks :
          \/ DPutWrite(t) \/ DPutCache(t)
          \/ \E drp \in Drps :
                /\ drp.pba < dnext
                /\ \/ DGetStart(t, drp) \/ DGetDirectStart(t, drp)
                   \/ DPopStart(t, drp) \/ DPopDirectStart(t, drp)
                   \/ DDeleteStart(t, drp) \/ DEvict(t, drp)
          \/ DGetRead(t) \/ DGetWake(t) \/ DGetDirectRead(t)
          \/ DPopRead(t) \/ DFree(t) \/ DReturn(t)
    /\ UNCHANGED <<idmlVars, txgVars, fsr, treeVars, devVars>>

SpecIdmlSeq == Init /\ [][NextIdmlSeq]_vars
SpecGetPop == Init /\ [][NextGetPop]_vars
SpecPut == Init /\ [][NextPut]_vars
SpecTxg == Init /\ [][NextTxg]_vars
\* The DDML on its own pool; the IDML and the Database are newly created
InitDdmlOnly ==
    /\ InitIdml(0) /\ InitTxg /\ InitDdml /\ InitFsRead /\ InitTree
    /\ InitDev
SpecDdml == InitDdmlOnly /\ [][NextDdml]_vars

\* Database::fsread of concurrent tasks and Database::sync_transaction
NextFsRead ==
    /\ \/ \E t \in Tasks : FsReadCall(t) \/ FsReadDone(t)
       \/ /\ \/ SyncStart \/ SyncFlush \/ SyncAll1 \/ SyncLabelBegin
             \/ SyncLabelEnd \/ SyncAll2 \/ SyncAdvance \/ SyncFail
             \/ SyncReturn
          /\ UNCHANGED fsr
    /\ UNCHANGED <<idmlVars, ddmlVars, treeVars, devVars>>

SpecFsRead == InitDdmlOnly /\ [][NextFsRead]_vars

\* Insert, remove, range_delete and flush on one tree, one after the other
NextTree ==
    /\ \/ \E k \in TKeys, v \in TVals : TInsert(k, v)
       \/ \E k \in TKeys : TRemove(k)
       \/ \E r \in TRangesOrdered : TRangeDelete(r)
       \/ TFlush \/ TFlushFail
    /\ UNCHANGED <<idmlVars, txgVars, ddmlVars, fsr, trd, tfanout, devVars>>

SpecTree == InitDdmlOnly /\ [][NextTree]_vars

\* Insert, remove and flush over a key space wide enough for a leaf below the
\* root to fill up and split
NextTreeInsert ==
    /\ \/ \E k \in CKeys, v \in TVals : TInsert(k, v)
       \/ \E k \in CKeys : TRemove(k)
       \/ TFlush
    /\ UNCHANGED <<idmlVars, txgVars, ddmlVars, fsr, trd, tfanout, devVars>>

SpecTreeInsert == InitDdmlOnly /\ [][NextTreeInsert]_vars

\* One Tree::get beside the Tree::inserts of another task
NextTreeGet ==
    /\ \/ \E k \in CKeys : RdStart(k)
       \/ RdLock \/ RdStep \/ RdReturn
       \/ \E k \in CKeys, v \in TVals : TInsertBesideGet(k, v)
    /\ UNCHANGED <<idmlVars, txgVars, ddmlVars, fsr, tfanout, devVars>>

SpecTreeGet == InitDdmlOnly /\ [][NextTreeGet]_vars

\* Insert, remove, range_delete and flush on a tree whose max_fanout is twice
\* its min_fanout, or more than twice as Tree::create's 16 is to its 4:
\* Tree::new takes both numbers as they come
InitTreeWide ==
    /\ InitIdml(0) /\ InitTxg /\ InitDdml /\ InitFsRead /\ InitDev
    /\ troot = IntElem(MinKey, "Mem", LeafNode(1, <<>>))
    /\ theight = 1
    /\ tlast = IdleLast
    /\ trd = IdleRd
    /\ tfanout \in {2 * min_fanout, 2 * min_fanout + 1}

NextTreeWide ==
    /\ \/ \E k \in WKeys : TInsert(k, MaxVal)
       \/ \E k \in WKeys : TRemove(k)
       \/ \E r \in WRanges : TRangeDelete(r)
       \/ TFlush
    /\ UNCHANGED <<idmlVars, txgVars, ddmlVars, fsr, trd, tfanout, devVars>>

SpecTreeWide == InitTreeWide /\ [][NextTreeWide]_vars

\* The reads and the writes of one mirror
NextMirror ==
    /\ \/ \E op \in ReadOps : MRead(op)
       \/ \E op \in WriteOps : MWriteCall(op)
       \/ \E c \in Children, ok \in BOOLEAN : MChildDone(c, ok)
       \/ MWriteDone \/ MWriteReturn
    /\ UNCHANGED <<idmlVars, txgVars, ddmlVars, fsr, treeVars, mopen,
                   miscVars>>

SpecMirror == InitDdmlOnly /\ [][NextMirror]_vars

\* Mirror::open on children with any labels
NextMirrorOpen ==
    /\ \E uuid \in Uuids \cup {NoUuid}, labels \in [Children -> Uuids] :
          MOpen(uuid, labels)
    /\ UNCHANGED <<idmlVars, txgVars, ddmlVars, fsr, treeVars, miscVars>>

SpecMirrorOpen == InitDdmlOnly /\ [][NextMirrorOpen]_vars

\* The writes of one VdevFile, at any LBA, in either build
NextVdevFile ==
    /\ \E lba \in Lbas, lbas \in BufLbas, checked \in BOOLEAN :
          \/ VWriteAt(lba, lbas, checked)
          \/ VWritevAt(lba, lbas, checked)
          \/ VWriteSpacemap(lba, lbas, checked)
    /\ UNCHANGED <<idmlVars, txgVars, ddmlVars, fsr, treeVars, mirrorVars,
                   mopen, cmp, dbfs, dm, rpc, pcreate,
                   synclog, tlk, erase>>

SpecVdevFile == InitDdmlOnly /\ [][NextVdevFile]_vars

\* Puts of buffers of any length, in any mode, with any compressed length
NextCompress ==
    /\ \E self \in Modes, lsize \in Lsizes, clen \in Clens :
          CPut(self, lsize, clen)
    /\ UNCHANGED <<idmlVars, txgVars, ddmlVars, fsr, treeVars, mirrorVars,
                   mopen, vfile, dbfs, dm, rpc, pcreate,
                   synclog, tlk, erase>>

SpecCompress == InitDdmlOnly /\ [][NextCompress]_vars

\* A database whose filesystems are made and synced, and that is reopened
NextDbFs ==
    /\ DbNewFs \/ DbSync \/ DbOpen
    /\ UNCHANGED <<idmlVars, txgVars, ddmlVars, fsr, treeVars, mirrorVars,
                   mopen, vfile, cmp, dm, rpc, pcreate,
                   synclog, tlk, erase>>

SpecDbFs == InitDdmlOnly /\ [][NextDbFs]_vars

\* Devices are tasted and pools imported, by UUIDs tasted or not
NextDevManager ==
    /\ \/ \E d \in Devs : DmTaste(d)
       \/ \E uuid \in Pools \cup {NumDevs + 1} : DmImport(uuid)
    /\ UNCHANGED <<idmlVars, txgVars, ddmlVars, fsr, treeVars, mirrorVars,
                   mopen, vfile, cmp, dbfs, rpc, pcreate,
                   synclog, tlk, erase>>

SpecDevManager == InitDdmlOnly /\ [][NextDevManager]_vars

\* Requests of every type from peers of any uid
NextRpc ==
    /\ \E req \in Requests, uid \in Uids, euid \in Uids,
          cres \in ControllerResults : ProcessRpc(req, uid, euid, cres)
    /\ UNCHANGED <<idmlVars, txgVars, ddmlVars, fsr, treeVars, mirrorVars,
                   mopen, vfile, cmp, dbfs, dm, pcreate,
                   synclog, tlk, erase>>

SpecRpc == InitDdmlOnly /\ [][NextRpc]_vars

\* pool create with any vdev specification
NextPoolCreate ==
    /\ \E vdev \in VdevSpecs : PoolCreate(vdev)
    /\ UNCHANGED <<idmlVars, txgVars, ddmlVars, fsr, treeVars, mirrorVars,
                   mopen, vfile, cmp, dbfs, dm, rpc,
                   synclog, tlk, erase>>

SpecPoolCreate == InitDdmlOnly /\ [][NextPoolCreate]_vars

\* Database::fswrite of concurrent tasks and Database::sync_transaction, with
\* the history of the steps of the sync
NextSyncOrder ==
    /\ \/ \E t \in Tasks : /\ \/ FsWriteTxg(t) \/ FsWriteCall(t)
                              \/ FsWriteStep(t) \/ FsWriteDone(t)
                           /\ UNCHANGED synclog
       \/ LogSyncStart \/ LogSyncFlush \/ LogSyncAll1 \/ LogSyncLabelBegin
       \/ LogSyncLabelEnd \/ LogSyncAll2 \/ LogSyncAdvance \/ LogSyncFail
       \/ LogSyncReturn
    /\ UNCHANGED <<idmlVars, ddmlVars, fsr, treeVars, mirrorVars, mopen,
                   vfile, cmp, dbfs, dm, rpc, pcreate, tlk, erase>>

SpecSyncOrder == Init /\ [][NextSyncOrder]_vars

\* One range query beside one remove, on the locks of a root and its children
NextTreeLocks ==
    /\ \/ RqStart \/ RqStepLeaf
       \/ RqPoll
       \/ \E i \in Kids : RqStepInt(i) \/ RmXlock(i)
       \/ RmStart \/ RmLockRoot \/ RmFix \/ RmLeaf
       \/ \E in_danger \in BOOLEAN : RmLockChild(in_danger)
    /\ UNCHANGED <<idmlVars, txgVars, ddmlVars, fsr, treeVars, mirrorVars,
                   mopen, vfile, cmp, dbfs, dm, rpc, pcreate, synclog,
                   erase>>

SpecTreeLocks == InitDdmlOnly /\ [][NextTreeLocks]_vars

\* Inserts, removes and flushes over the transactions of a tree of height 3
\* that was flushed in transaction 0
InitTreeTxgs ==
    /\ InitIdml(0) /\ InitTxg /\ InitDdml /\ InitFsRead /\ InitDev
    /\ troot = FlushedTree(0)
    /\ theight = 3
    /\ tlast = IdleLast
    /\ trd = IdleRd
    /\ tfanout = 2 * min_fanout + 1

NextTreeTxgs ==
    /\ \/ \E k \in FlushedFirstKeys : TxInsert(k)
       \/ \E k \in FlushedKeys : TxRemove(k)
       \/ TxFlush
       \/ TxAdvance
    /\ UNCHANGED <<idmlVars, num_readers, exclusive, fsw, sync, fsdata,
                   disklabel, db, ddmlVars, fsr, trd, tfanout, devVars>>

SpecTreeTxgs == InitTreeTxgs /\ [][NextTreeTxgs]_vars

\* Concurrent pops and deletes of every task
NextPopDelete ==
    /\ \E t \in Tasks :
          \/ \E rid \in RIDs : PopStart(t, rid)
          \/ PopSteps(t)
          \/ \E rid \in RIDs : DeleteStart(t, rid)
          \/ DeleteSteps(t)
          \/ Return(t)
    /\ UNCHANGED <<txgVars, ddmlVars, fsr, treeVars, devVars>>

SpecPopDelete == Init /\ [][NextPopDelete]_vars

\* The erase_zone calls on one VdevFile
NextErase ==
    /\ \/ \E candelete \in BOOLEAN, have_fspacectl \in BOOLEAN :
             VdevFileNew(candelete, have_fspacectl)
       \/ \E start \in EraseLbas, end \in EraseLbas, ret \in SysResults :
             EraseZone(start, end, ret)
    /\ UNCHANGED <<idmlVars, txgVars, ddmlVars, fsr, treeVars, mirrorVars,
                   mopen, vfile, cmp, dbfs, dm, rpc, pcreate, synclog, tlk>>

SpecErase == InitDdmlOnly /\ [][NextErase]_vars

\* ---------------------------------------------------------------- claims

\* C1: if the system stops at any point, the middle of the label write of
\* sync_transaction included, the import that follows succeeds and yields the
\* state that the last sync_transaction made durable; a label that was being
\* written never takes the place of the complete label before it.
C1_ImportAfterStop ==
    /\ db.state = "imported" => db.data \in {db.isynced, db.iwritten}
    /\ db.state = "unreadable" => ~disklabel.prev

\* C2: the txg lease that fswrite acquired is held for as long as the future
\* made by its closure is pending: sync_transaction is not inside its flush
\* and the txg is still the one the dataset was built with.
C2_LeaseHeldByFuture ==
    \A t \in Tasks : fsw[t].pc = "running" =>
        /\ num_readers > 0
        /\ sync.pc \notin InClosure
        /\ fsw[t].txg = transaction

\* C3: a txg lease and a running advance_transaction exclude each other:
\* while a lease is held the closure is not running and the txg does not
\* change, while the closure runs no lease is held or granted, and a lease
\* holder reads the txg while no sync is in progress.
C3_LeaseStateInv ==
    /\ num_readers > 0 => ~exclusive /\ sync.pc \notin InClosure
    /\ sync.pc \in InClosure =>
          /\ exclusive
          /\ num_readers = 0
          /\ \A t \in Tasks : fsw[t].pc # "leased"
    /\ \A t \in Tasks : fsw[t].pc = "leased" => num_readers > 0
C3_LeaseStep ==
    /\ transaction' > transaction => num_readers = 0 /\ num_readers' = 0
    /\ num_readers' > num_readers => sync.pc \notin InClosure
    /\ \A t \in Tasks :
          fsw[t].pc = "leased" /\ fsw'[t].pc = "running" =>
              fsw'[t].txg = transaction /\ sync.pc \notin InClosure
C3_LeaseExcludesAdvance == []C3_LeaseStateInv /\ [][C3_LeaseStep]_vars
C3_Witness ==
    /\ transaction > 0
    /\ \E t \in Tasks : fsw[t].pc = "leased"
    /\ sync.pc = "idle"

\* C4: advance_transaction calls f once with the current txg T under the
\* write lock; the txg is T while f runs, T+1 once f has succeeded and T
\* when f has failed, and in both cases the lock is released at the end.
C4_AdvanceTransaction ==
    /\ sync.pc \in InClosure =>
          exclusive /\ transaction = sync.txg /\ sync.calls = 1
    /\ sync.pc = "done" =>
          /\ ~exclusive
          /\ sync.calls = 1
          /\ sync.res \in {"ok", "err"}
          /\ sync.res = "ok" => transaction = sync.txg + 1
          /\ sync.res = "err" => transaction = sync.txg
C4_Witness ==
    /\ sync.pc = "done"
    /\ sync.res = "err"
    /\ transaction > 0

\* C5: when no IDML operation is in flight, every RID of the RIDT with a
\* positive reference count is what the AllocT maps its DRP's PBA to.
C5_RidtInAlloct ==
    AllIdle =>
        \A rid \in RIDs :
            ridt[rid].some /\ ridt[rid].refcount > 0 =>
                alloct[ridt[rid].drp.pba] = rid
C5_Witness ==
    /\ AllIdle
    /\ \E rid \in RIDs, p \in PBAs :
          /\ ridt[rid].some
          /\ alloct[p] = rid
          /\ ridt[rid].drp.pba # p

\* C6: when no IDML operation is in flight, every PBA of the AllocT maps to
\* a RID that the RIDT holds, and whose DRP is at that PBA.
C6_AlloctInRidt ==
    AllIdle =>
        \A p \in PBAs :
            alloct[p] # NoRid =>
                ridt[alloct[p]].some /\ ridt[alloct[p]].drp.pba = p

\* C7: a pop or delete of an existing RID takes one reference.  Was it the
\* last, the RIDT entry, the AllocT entry of its PBA and the cache entry are
\* gone and the blocks are freed; otherwise the RIDT holds the same DRP with
\* one reference less, and the AllocT entry and the blocks are as before.
\* pop returns the record's payload.  No RIDT entry has 0 references.
C7_PopDelete ==
    /\ \A rid \in RIDs : ridt[rid].some => ridt[rid].refcount > 0
    /\ \A t \in Tasks :
          LET rid == task[t].rid
              drp == task[t].entry.drp
          IN task[t].pc = "done" /\ task[t].op \in {"pop", "delete"}
                /\ task[t].res = "ok" =>
                /\ task[t].op = "pop" => task[t].val = Payload(rid)
                /\ refs[rid] = 0 =>
                      /\ ~ridt[rid].some
                      /\ alloct[drp.pba] = NoRid
                      /\ cache[rid] = NoVal
                      /\ drp.pba \notin allocated
                /\ refs[rid] # 0 =>
                      /\ ridt[rid] = Some(drp, refs[rid])
                      /\ alloct[drp.pba] = rid
                      /\ drp.pba \in allocated
                      /\ disk[drp.pba] = drp.checksum
C7_Witness ==
    \E t \in Tasks :
        /\ task[t].pc = "done" /\ task[t].op = "pop" /\ task[t].res = "ok"
        /\ ridt[task[t].rid].some
        /\ ridt[task[t].rid].refcount = 1

\* C8 as amended: a put is assigned a RID that no put was assigned in this
\* run of the IDML or before the label it was opened from was written, that
\* no concurrent put has, and that the RIDT does not hold: all of these are
\* below next_rid, and the label's next_rid is above every RID of its RIDT.
C8_StateInv ==
    /\ \A r \in RIDs :
          (r \in assigned \/ ridt[r].some
             \/ \E t \in Tasks : task[t].op = "put" /\ task[t].rid = r)
          => r < next_rid
    /\ label.valid =>
          \A r \in RIDs :
              (r \in label.assigned \/ label.ridt[r].some)
              => r < label.next_rid
C8_Step ==
    \A t \in Tasks :
        task[t].op # "put" /\ task'[t].op = "put" =>
            /\ task'[t].rid \notin assigned
            /\ ~ridt[task'[t].rid].some
            /\ \A u \in Tasks : task[u].op = "put" =>
                  task[u].rid # task'[t].rid
            /\ label.valid => task'[t].rid \notin label.assigned
C9_StateInv ==
    \A t \in Tasks :
        task[t].pc = "done" /\ task[t].op \in {"get", "pop", "delete"} =>
            /\ task[t].res \in {"ok", "ENOENT"}
            /\ task[t].res = "ENOENT" =>
                  /\ ~ridt[task[t].rid].some
                  /\ refs[task[t].rid] = 0
                  /\ cache[task[t].rid] = NoVal
            /\ task[t].res = "ok" =>
                  refs[task[t].rid] >= (IF task[t].op = "get" THEN 1 ELSE 0)
C9_Step ==
    \A t \in Tasks :
        /\ task'[t].res = "ENOENT" /\ task[t].res # "ENOENT" =>
              /\ UNCHANGED <<tables, cache, pool, next_rid>>
              /\ ~ridt[task'[t].rid].some
              /\ task'[t].pc = "done"
        /\ task[t].pc = "idle" /\ task'[t].op \in {"pop", "delete"}
              /\ ~ridt[task'[t].rid].some =>
              task'[t].res = "ENOENT"
        /\ task[t].pc = "get_ridt" /\ task'[t].pc \notin {"get_ridt", "idle"}
              /\ ~ridt[task[t].rid].some =>
              task'[t].res = "ENOENT"
C9_NotFound == []C9_StateInv /\ [][C9_Step]_vars
C9_Witness ==
    \E t \in Tasks :
        /\ task[t].pc = "done" /\ task[t].op = "pop"
        /\ task[t].res = "ENOENT"
        /\ task[t].rid \in assigned
        /\ task[t].rid = 0 /\ disk[0] = Payload(0)

\* C10: a get that runs concurrently with a pop of the same RID returns the
\* record's payload read from blocks that are still allocated, and leaves no
\* cache entry for a RID that the RIDT no longer holds.
C10_GetDuringPop ==
    \A t \in Tasks :
        task[t].pc = "done" /\ task[t].op = "get" /\ task[t].res = "ok" =>
            /\ task[t].live
            /\ task[t].val = Payload(task[t].rid)
            /\ cache[task[t].rid] # NoVal => ridt[task[t].rid].some

\* C11: concurrent gets that miss the cache for the same key cause one disk
\* read: while the read of one IDML::get of a RID is in flight, no second
\* get of that RID has a read of its own in flight.
C11_SingleRead ==
    \A t, u \in Tasks :
        t # u /\ task[t].pc = "get_direct" /\ task[u].pc = "get_direct" =>
            task[t].rid # task[u].rid

\* C12: a DDML get, get_direct, pop or pop_direct whose read returns bytes
\* that do not match the DRP's checksum returns EINTEGRITY, and the step that
\* returns EINTEGRITY leaves the cache, the allocation and the disk as they
\* were; pop and pop_direct free only with a value in hand.
C12_StateInv ==
    \A t \in Tasks :
        /\ dtask[t].res = "EINTEGRITY" =>
              /\ dtask[t].val = NoVal
              /\ dtask[t].op \in {"get", "get_direct", "pop", "pop_direct"}
        /\ dtask[t].pc = "pop_free" /\ dtask[t].op # "delete" =>
              dtask[t].val # NoVal
C12_Step ==
    \A t \in Tasks :
        /\ dtask[t].pc \in {"get_read", "direct_read", "pop_read"}
              /\ dtask'[t] # dtask[t]
              /\ ddisk[dtask[t].drp.pba] # dtask[t].drp.checksum =>
              dtask'[t].res = "EINTEGRITY"
        /\ dtask'[t].res = "EINTEGRITY" /\ dtask[t].res # "EINTEGRITY" =>
              UNCHANGED <<dcache, dalloc, ddisk, dnext>>
C12_ChecksumMismatch == []C12_StateInv /\ [][C12_Step]_vars
C12_Witness ==
    \E t \in Tasks :
        /\ dtask[t].pc = "done" /\ dtask[t].op = "pop"
        /\ dtask[t].res = "EINTEGRITY"
        /\ dtask[t].drp.pba \in dalloc
        /\ dcache[dtask[t].drp.pba] = NoVal

\* C13: a DDML pop of the DRP that put returned yields the value put and
\* frees the block, which was allocated until then (so it is freed once); a
\* pop of a DRP whose block has been freed returns ENOENT and frees nothing.
C13_StateInv ==
    \A t \in Tasks :
        dtask[t].pc = "done" /\ dtask[t].op = "pop" /\ dtask[t].res = "ok" =>
            /\ dtask[t].val = DPayload(dtask[t].drp.pba)
            /\ dtask[t].drp.pba \notin dalloc
C13_Step ==
    \A t \in Tasks :
        /\ dtask[t].pc = "idle" /\ dtask'[t].op = "pop"
              /\ dtask'[t].drp.pba \notin dalloc =>
              dtask'[t].res = "ENOENT"
        /\ dtask[t].pc = "pop_free" /\ dtask'[t].pc = "done" =>
              dtask[t].drp.pba \in dalloc
C13_PutPop == []C13_StateInv /\ [][C13_Step]_vars

\* C14: when clean_zone of a zone has completed, every record of the RIDT
\* lies outside the zone's PBA range with its contents and its reference
\* count as before, and the AllocT holds no PBA of the zone's range.
C14_CleanZone ==
    \A t \in Tasks :
        task[t].pc = "done" /\ task[t].op = "clean_zone"
            /\ task[t].res = "ok" =>
            \E zone \in Zones :
                /\ ZoneEnd(zone) = task[t].end
                /\ \A p \in ZoneStart(zone) .. (ZoneEnd(zone) - 1) :
                      alloct[p] = NoRid
                /\ \A rid \in RIDs : ridt[rid].some =>
                      /\ ridt[rid].drp.pba >= ZoneEnd(zone)
                            \/ ridt[rid].drp.pba < ZoneStart(zone)
                      /\ disk[ridt[rid].drp.pba] = Payload(rid)
                      /\ ridt[rid].refcount = refs[rid]

\* C20: while a Database::fsread is in progress a txg lease is held (a read
\* guard of the transaction lock is alive), and the transaction group is
\* still the one that was current when the fsread was called.
C20_FsReadLease ==
    \A t \in Tasks :
        fsr[t].pc = "running" =>
            /\ num_readers > 0
            /\ transaction = fsr[t].txg

\* C15: concurrent operations on one tree are strictly serializable; for a
\* get: what it returns is what was stored under its key at some moment
\* between its call and its return.
C15_Serializable == trd.pc = "done" => trd.ret \in trd.seen

\* a step of the tree that is the operation op
TreeStep(op) == tlast'.op = op /\ <<troot, theight, tlast>>' # <<troot, theight, tlast>>

\* C16: a Tree operation that fails part-way leaves the tree as it was before
\* the call: the root element and everything under it are unchanged, and no
\* pointer is left as TreePtr::None.
C16_State == troot.ptr # "None"
C16_Step ==
    tlast'.st = "error" /\ <<troot, theight, tlast>>' # <<troot, theight, tlast>>
        => troot' = troot /\ theight' = theight
C16_FailedOpAtomic == []C16_State /\ [][C16_Step]_vars

\* C17: Tree::insert(k, v) returns the value stored under k before (none if
\* there was none); afterwards get(k) returns v and get of every other key
\* returns what it returned before, whatever operations came before and
\* whether or not the insert split a node or the root.
C17_Step ==
    TreeStep("insert") =>
        /\ tlast'.st = "ok"
        /\ tlast'.ret = TreeGet(troot, tlast'.k)
        /\ \A j \in CKeys :
              TreeGet(troot', j) = IF j = tlast'.k THEN tlast'.v
                                   ELSE TreeGet(troot, j)
C18_Step ==
    TreeStep("remove") =>
        /\ tlast'.st = "ok"
        /\ tlast'.ret = TreeGet(troot, tlast'.k)
        /\ \A j \in TKeys :
              TreeGet(troot', j) = IF j = tlast'.k THEN NoVal
                                   ELSE TreeGet(troot, j)
C18_Remove == [][C18_Step]_vars

\* C19: Tree::range_delete(R) completes for every range R; afterwards
\* range(R) yields nothing and get of every key outside R returns what it
\* returned before.
C19_Step ==
    TreeStep("range_delete") =>
        /\ tlast'.st = "ok"
        /\ TreeRange(troot', tlast'.r).v = <<>>
        /\ \A j \in TKeys :
              ~InRange(j, tlast'.r) => TreeGet(troot', j) = TreeGet(troot, j)
C19_RangeDelete == [][C19_Step]_vars

\* C21: Mirror write_at and writev_at issue the write to every child; the
\* mirror's write is Ok only when every child has completed its write
\* without an error, and once a child's write has failed the mirror's write
\* ends with an error, never Ok.
C21_State ==
    /\ mres.pc = "ok" => \A c \in Children : mwrite[c] = "ok"
    /\ mres.pc = "err" => \E c \in Children : mwrite[c] = "err"
C21_Step ==
    /\ mres.pc = "idle" /\ mres'.pc # "idle" =>
          /\ mres'.pc = "pending"
          /\ \A c \in Children : mwrite'[c] = "issued"
    /\ mres.pc = "pending" /\ (\E c \in Children : mwrite[c] = "err") =>
          mres'.pc \in {"pending", "err"}
C21_MirrorWrite == []C21_State /\ [][C21_Step]_vars
\* a writev_at failed because of the one child that failed, after the others
\* had completed
C21_Witness ==
    /\ mres = [pc |-> "err", op |-> "writev_at"]
    /\ \E c \in Children :
          /\ mwrite[c] = "err"
          /\ \A d \in Children \ {c} : mwrite[d] = "ok"

\* C22: Mirror::open makes a mirror only of children whose label UUIDs all
\* equal the expected UUID, when one is given, and all equal each other,
\* when none is given.
C22_OpenSameMirror ==
    mopen.st = "opened" =>
        /\ mopen.expected # NoUuid =>
              \A c \in Children : mopen.labels[c] = mopen.expected
        /\ \A c, d \in Children : mopen.labels[c] = mopen.labels[d]

\* a step that is a read of the mirror goes to one child, the one at the
\* value of next_read_idx before the step modulo the number of children, and
\* adds one to next_read_idx, which wraps
C23_ReadStep ==
    mreads' # mreads =>
        LET idx == next_read_idx % NumChildren
        IN /\ mreads' = [mreads EXCEPT ![idx] = @ + 1]
           /\ mlastread'.child = idx /\ mlastread'.op \in ReadOps
           /\ next_read_idx' = (next_read_idx + 1) % IdxWrap
\* on a mirror whose counter has not wrapped the reads are spread evenly:
\* child c got the reads number c, c + N, c + 2N, ...
C23_Fresh ==
    ReadsSent <= IdxWrap =>
        \A c \in Children :
            mreads[c] = Cardinality({i \in 0 .. (ReadsSent - 1) :
                                        i % NumChildren = c})

\* C23 as stated: every read goes to the child at (next_read_idx before the
\* increment) mod N, the counter wraps, and the reads go round-robin: each
\* read goes to the child after the one the read before it went to.
C23_RoundRobinStep ==
    /\ C23_ReadStep
    /\ mreads' # mreads /\ mlastread.child # NoChild =>
          mlastread'.child = (mlastread.child + 1) % NumChildren
C23_RoundRobin == []C23_Fresh /\ [][C23_RoundRobinStep]_vars

\* C23, amended: as above, the reads going round-robin from one wrap of the
\* counter to the next; the read that follows the wrap goes to child 0.
C23_ReadIdxStep ==
    /\ C23_ReadStep
    /\ mreads' # mreads /\ mlastread.child # NoChild =>
          mlastread'.child = IF next_read_idx = 0 THEN 0
                             ELSE (mlastread.child + 1) % NumChildren
C23_ReadIdx == []C23_Fresh /\ [][C23_ReadIdxStep]_vars
\* 3 * N reads were made on a new mirror and every child got 3 of them
C23_Witness ==
    /\ ReadsSent = 3 * NumChildren
    /\ \A c \in Children : mreads[c] = 3
    /\ mlastread.child = NumChildren - 1

\* C24: the data writes of a VdevFile never touch the reserved space: write_at
\* and writev_at below reserved_space() panic before any I/O, and
\* write_spacemap never writes past the end of the reserved region.
C24_BelowReservedPanics ==
    (vfile.op \in {"write_at", "writev_at"} /\ vfile.lba < reserved_space)
        => vfile.st = "panic" /\ vfile.touched = {}

C24_SpacemapInside ==
    vfile.op = "write_spacemap"
        => \A l \in vfile.touched : l < reserved_space

C24_DataOutside ==
    vfile.op \in {"write_at", "writev_at"}
        => \A l \in vfile.touched : l >= reserved_space

LbasOccupied(n) ==
    CHOOSE k \in 0 .. n : k * BYTES_PER_LBA >= n
                          /\ \A j \in 0 .. k - 1 : j * BYTES_PER_LBA < n

C25_Saves == LbasOccupied(cmp.clen) < LbasOccupied(cmp.lsize)

C25_KeepsInput ==
    /\ cmp.out.buf = "input" /\ cmp.out.len = cmp.lsize
    /\ cmp.out.compression = "None"
    /\ ~cmp.drp.compressed /\ cmp.drp.csize = cmp.drp.lsize

C25_Compress ==
    cmp.out.buf # "none" =>
        /\ cmp.out.buf = "compressed" => C25_Saves /\ cmp.mode # "None"
        /\ (~C25_Saves \/ cmp.mode = "None" \/ cmp.lsize <= BYTES_PER_LBA)
              => C25_KeepsInput
        /\ cmp.out.buf = "compressed" =>
              /\ cmp.out.compression = cmp.mode /\ cmp.drp.compressed
              /\ cmp.drp.csize = cmp.clen /\ cmp.drp.lsize = cmp.lsize

\* a compressed form shorter than the input, in as many LBAs, is not kept
C25_Witness ==
    /\ cmp.mode = "LZ4" /\ cmp.lsize > BYTES_PER_LBA
    /\ cmp.clen < cmp.lsize /\ ~C25_Saves
    /\ cmp.out.buf = "input"

\* C26: new_fs returns the lowest n that no existing filesystem uses: never
\* the ID of a filesystem that exists, those made before the database was
\* reopened included, so that no two calls return the ID of one filesystem.
C26_LowestUnused ==
    dbfs.st = "ok" =>
        /\ dbfs.ret \notin dbfs.pre
        /\ \A j \in FsIds : j < dbfs.ret => j \in dbfs.pre

\* within one incarnation of the database the ID is the lowest unused one
C26_LowestOfMemory ==
    dbfs.st = "ok" =>
        /\ \A j \in FsIds : j < dbfs.ret => j \in dbfs.filesystems
        /\ dbfs.ret \in dbfs.filesystems

\* C27: importing a pool whose UUID is not among the pools the DevManager has
\* tasted returns ENOENT, without a panic and without a change to the
\* registries of the tasted leaf, raid and pool labels.
C27_ImportUnknown ==
    (dm.op = "import" /\ ~dm.known) => dm.st = "enoent"

\* the registries are as they were when the import of an unknown pool ends
C27_RegistriesKept ==
    [][(dm' # dm /\ dm'.op = "import" /\ ~dm'.known)
          => /\ dm'.leaves = dm.leaves /\ dm'.raids = dm.raids
             /\ dm'.pools = dm.pools]_vars

Occurrences(seq, x) == Cardinality({i \in DOMAIN seq : seq[i] = x})

RECURSIVE Placed(_, _)
Placed(clusters, x) ==
    IF clusters = <<>> THEN 0
    ELSE Occurrences(Head(clusters).devs, x) + Placed(Tail(clusters), x)

C29_EveryDeviceInOneCluster ==
    pcreate.st = "ok" =>
        \A d \in DevPaths :
            Placed(pcreate.clusters, d) = Occurrences(pcreate.vdev, d)

\* the groups of single disks and of raids are made as the claim says
C29_SinglesAndRaids ==
    (pcreate.st = "ok" /\ \A i \in DOMAIN pcreate.vdev :
                              pcreate.vdev[i] # "mirror") =>
        \A d \in DevPaths :
            Placed(pcreate.clusters, d) = Occurrences(pcreate.vdev, d)

\* C30: sync_transaction does its work in this order, each step starting when
\* the one before it is complete: the filesystem trees are flushed and
\* inserted into the Forest, the Forest is flushed, idml.sync_all, the label
\* with the root of the flushed Forest is written, idml.sync_all again, and
\* only then the transaction group advances.
IsPrefix(s, t) == Len(s) <= Len(t) /\ s = SubSeq(t, 1, Len(s))

C30_SyncOrder ==
    IsPrefix(synclog, <<"flush_trees", "flush_forest", "sync_all",
                        "write_label", "sync_all", "advance">>)

\* the order of the code: the Forest is flushed after the first sync_all
C30_SyncOrderOfCode ==
    IsPrefix(synclog, <<"flush_trees", "sync_all", "flush_forest",
                        "write_label", "sync_all", "advance">>)

\* C31: in a read traversal the read lock of a node is released only when the
\* read lock of the chosen child has been acquired, so that the reader holds
\* a lock on its path at every moment of the descent (a writer keeps the
\* parent's guard while it locks the child: xlock returns both).
\* With pc = "want_node" the get holds no lock: the future that will lock
\* the node is made and not yet polled.
C31_LockCoupling ==
    [][~(trd.pc = "at_node" /\ trd'.pc = "want_node")]_vars

\* C32: no interleaving of concurrent Tree operations deadlocks, also when
\* the fix step of a remove locks a sibling while a range query holds or
\* awaits the neighbouring nodes: never do a range query and a remove each
\* wait for a lock that the other holds.
C32_NoDeadlock == ~(RqBlocked /\ RmBlocked)

\* C33: after any sequence of completed insert, remove and range_delete
\* operations every node but the root has between min_fanout and max_fanout
\* children, or items for a leaf; only the root may have fewer.
RECURSIVE NodesBelow(_)
NodesBelow(node) ==
    UNION {{node.children[i].node} \cup NodesBelow(node.children[i].node) :
              i \in 1 .. Len(node.children)}

RECURSIVE KeysBelow(_)
KeysBelow(node) ==
    IF node.leaf THEN {node.items[i].key : i \in 1 .. Len(node.items)}
    ELSE UNION {KeysBelow(node.children[i].node) :
                   i \in 1 .. Len(node.children)}

NodeOrdered(node) ==
    IF node.leaf
    THEN \A i \in 1 .. Len(node.items) - 1 :
            node.items[i].key < node.items[i + 1].key
    ELSE /\ \A i \in 1 .. Len(node.children) :
               \A k \in KeysBelow(node.children[i].node) :
                  node.children[i].key <= k
         /\ \A i \in 1 .. Len(node.children) - 1 :
               node.children[i].key < node.children[i + 1].key

C34_KeysOrdered ==
    troot.ptr # "None" =>
        \A n \in {troot.node} \cup NodesBelow(troot.node) : NodeOrdered(n)

\* C35: for every child entry of every internal node, txgs.start is the
\* minimum and txgs.end is one more than the maximum txg in which any node of
\* that child's subtree was written, after any sequence of insert, remove and
\* flush: the range of an entry contains the txg of every written node under
\* it, and is exactly their span when the entry's subtree is clean.
RECURSIVE WrittenIn(_)
WrittenIn(elem) ==
    (IF elem.ptr = "Addr" THEN {elem.w} ELSE {})
    \cup UNION {WrittenIn(elem.node.children[i]) :
                   i \in 1 .. Len(elem.node.children)}

RECURSIVE ElemsBelow(_)
ElemsBelow(node) ==
    UNION {{node.children[i]} \cup ElemsBelow(node.children[i].node) :
              i \in 1 .. Len(node.children)}

C35_TxgRanges ==
    \A e \in ElemsBelow(troot.node) :
       /\ \A t \in WrittenIn(e) : e.txgs.start <= t /\ t < e.txgs.end
       /\ e.ptr = "Addr" =>
             /\ e.txgs.start = MinOf(WrittenIn(e))
             /\ e.txgs.end = MaxOf(WrittenIn(e)) + 1

\* C36: when Tree::flush returns, every node pointer from the root down is an
\* address, each dirty node was written only after all of its dirty children,
\* and no pointer is left as the None of a flush in progress.
IsProperPrefix(s, t) == Len(s) < Len(t) /\ SubSeq(t, 1, Len(s)) = s

TreeClean ==
    /\ troot.ptr = "Addr"
    /\ \A e \in ElemsBelow(troot.node) : e.ptr = "Addr"

ChildrenPutFirst ==
    \A i \in 1 .. Len(tlast.puts), j \in 1 .. Len(tlast.puts) :
       IsProperPrefix(tlast.puts[j], tlast.puts[i]) => i < j

C36_FlushClean ==
    tlast.op = "flush" => TreeClean /\ ChildrenPutFirst

\* the same of the flushes that return Ok
C36_FlushCleanIfOk ==
    tlast.op = "flush" /\ tlast.st = "ok" => TreeClean /\ ChildrenPutFirst

\* C37: refcount decrements are not lost under concurrency.  When the pops
\* and deletes that ran beside each other on a record have all returned, the
\* record's refcount is the one it had less the number of them, and when that
\* is 0 the RIDT and AllocT entries are gone and the record's blocks are free.
C37_NoLostDecrement ==
    (\A t \in Tasks : task[t].pc \in {"idle", "done"}) =>
        \A rid \in RIDs :
           /\ refs[rid] > 0 => ridt[rid] = Some(ridt[rid].drp, refs[rid])
           /\ refs[rid] = 0 =>
                 /\ ~ridt[rid].some
                 /\ \A p \in PBAs : alloct[p] # rid
                 /\ rid \in everAssigned =>
                       MakeDrp(rid, Payload(rid)).pba \notin allocated

\* C38: transaction-group numbers increase across sync and re-import.  When
\* the IDML is opened from the label that the sync_transaction of txg T
\* wrote, its current txg is greater than T.
C38_TxgAfterImport ==
    [][CrashImport /\ disklabel.state = "ok" =>
           transaction' > disklabel.txg]_vars

\* C39: for every RPC request the variant of the daemon's response is the
\* one of the request, also when the request is rejected with EPERM, so the
\* client's into_* accessor of the request does not panic.
into_response(req, resp) ==
    IF resp.variant = req THEN resp.result ELSE "panic"

C39_ResponseMatches ==
    rpc.req # "none" =>
        /\ rpc.resp.variant = rpc.req
        /\ into_response(rpc.req, rpc.resp) # "panic"

\* C40: the erase method is decided once and kept.  A new VdevFile starts
\* with the discard ioctl when the file supports it, and otherwise undecided
\* about hole punching (or with the no-op, in a build without it); a call in
\* the undecided state resolves it to hole punching when the call succeeds
\* and to the no-op when it returns ENOSYS or ENODEV; a method that is
\* discard, hole punching or no-op never changes; and with the no-op
\* erase_zone succeeds without a system call.
Decided == {"None", "Diocgdelete", "Fspacectl"}

C40_EraseMethod ==
    [][/\ erase.method = "none" =>
             erase'.method = IF erase'.candelete THEN "Diocgdelete"
                             ELSE IF erase'.have_fspacectl
                             THEN "MaybeFspacectl" ELSE "None"
       /\ erase.method = "MaybeFspacectl" =>
             /\ erase'.last.sys = "Ok" => erase'.method = "Fspacectl"
             /\ erase'.last.sys \in {"ENOSYS", "ENODEV"} =>
                   erase'.method = "None" /\ erase'.last.res = "Ok"
       /\ erase.method \in Decided => erase'.method = erase.method
       /\ erase.method = "None" =>
             erase'.last.sys = "none" /\ erase'.last.res = "Ok"]_vars

\* the undecided method of a file without the discard ioctl was resolved to
\* hole punching by a call that succeeded, and a later call failed
C40_Witness ==
    /\ ~erase.candelete /\ erase.have_fspacectl
    /\ erase.method = "Fspacectl"
    /\ erase.last.sys = "ENODEV"

====
